---------------------------- MODULE Spec2Model ----------------------------
(***************************************************************************)
(* Control flow graph builder (moredrowsy/pycfg): the regex tokenizer, the *)
(* table-driven parser with its six sub-builders, the node minimiser and   *)
(* the edge extraction, as driven by ControlFlowGraph.add_string/parse.    *)
(***************************************************************************)
EXTENDS Integers, Sequences, FiniteSets, TLC

VARIABLES strings, tokens, heap, nodes, bound, edges, output, exc,
          grammar_error, pc

vars == <<strings, tokens, heap, nodes, bound, edges, output, exc,
          grammar_error, pc>>

(***************************************************************************)
(* Bounds of the model.                                                    *)
(***************************************************************************)
\* number of add_string calls before parse
MaxLines == 2

\* length of the lines given to the tokenizer character by character
MaxLen == 4

(***************************************************************************)
(* Text.  A string is a sequence of one-character strings.                 *)
(***************************************************************************)
Whitespace == {" ", "\t", "\n"}

\* the characters excluded by the classes [^\(\)\;\{\}] of the rules
Special == {";", "(", ")", "{", "}"}

\* re.IGNORECASE, on the letters the keyword rules use
Lower(c) ==
  CASE c = "I" -> "i" [] c = "F" -> "f" [] c = "E" -> "e" [] c = "L" -> "l"
    [] c = "S" -> "s" [] c = "W" -> "w" [] c = "H" -> "h" [] c = "D" -> "d"
    [] c = "O" -> "o" [] c = "R" -> "r" [] OTHER -> c

RECURSIVE lstrip(_)
lstrip(s) == IF s # <<>> /\ Head(s) \in Whitespace THEN lstrip(Tail(s)) ELSE s

RECURSIVE rstrip(_)
rstrip(s) ==
  IF s # <<>> /\ s[Len(s)] \in Whitespace
  THEN rstrip(SubSeq(s, 1, Len(s) - 1))
  ELSE s

\* a strip that leaves the white space in place
no_strip(s) == s

\* str.strip()
strip(s) == rstrip(lstrip(s))

\* a replace that cuts the last occurrence of tok out
replace_last(s, tok) ==
  LET n == Len(tok)
      occ == {i \in 1..(Len(s) - n + 1) : SubSeq(s, i, i + n - 1) = tok}
  IN IF n = 0 \/ occ = {} THEN s
     ELSE LET i == CHOOSE j \in occ : \A k \in occ : j >= k
          IN SubSeq(s, 1, i - 1) \o SubSeq(s, i + n, Len(s))

\* str.replace(tok, "", 1): the first occurrence of tok is cut out
replace(s, tok) ==
  LET n == Len(tok)
      occ == {i \in 1..(Len(s) - n + 1) : SubSeq(s, i, i + n - 1) = tok}
  IN IF n = 0 \/ occ = {} THEN s
     ELSE LET i == CHOOSE j \in occ : \A k \in occ : j <= k
          IN SubSeq(s, 1, i - 1) \o SubSeq(s, i + n, Len(s))

(***************************************************************************)
(* Token                                                                   *)
(***************************************************************************)
Token(line, token_type, sequence) ==
  [line |-> line, type |-> token_type, sequence |-> sequence]

\* Token.__eq__: line and type; the sequence is compared with itself
TokenEq(t, o) == t.line = o.line /\ t.type = o.type /\ t.sequence = t.sequence

(***************************************************************************)
(* Tokenizer                                                               *)
(***************************************************************************)
\* length of the longest prefix of s made of characters outside Special
RECURSIVE PlainRun(_)
PlainRun(s) ==
  IF s # <<>> /\ Head(s) \notin Special THEN 1 + PlainRun(Tail(s)) ELSE 0

\* "^(" + literal + ")" with re.IGNORECASE: length of the match, 0 if none
MatchLiteral(lit, s) ==
  IF Len(s) >= Len(lit) /\ \A i \in 1..Len(lit) : Lower(s[i]) = lit[i]
  THEN Len(lit)
  ELSE 0

\* [^\(\)\;\{\}]*[\s]*[^\(\)\;\{\}]+\([^\(\)\;\{\}]*\)
MatchFunction(s) ==
  LET n == PlainRun(s)
      rest == SubSeq(s, n + 2, Len(s))
      m == PlainRun(rest)
  IN IF n >= 1 /\ Len(s) >= n + 1 /\ s[n + 1] = "("
        /\ Len(rest) >= m + 1 /\ rest[m + 1] = ")"
     THEN n + 1 + m + 1
     ELSE 0

\* a STATEMENT rule that stops at white space, as a word-level lexer would
RECURSIVE WordRun(_)
WordRun(s) ==
  IF s # <<>> /\ Head(s) \notin Special \cup Whitespace
  THEN 1 + WordRun(Tail(s))
  ELSE 0

\* [^\(\)\{\}\;]+
MatchStatement(s) == PlainRun(s)

\* the rules without the STATEMENT rule at their end
TokenInfos_no_fallback ==
  << [kind |-> "literal", lit |-> <<";">>, type |-> "SEMICOLON"],
     [kind |-> "literal", lit |-> <<"i", "f">>, type |-> "IF"],
     [kind |-> "literal", lit |-> <<"e", "l", "s", "e">>, type |-> "ELSE"],
     [kind |-> "literal", lit |-> <<"w", "h", "i", "l", "e">>, type |-> "WHILE"],
     [kind |-> "literal", lit |-> <<"d", "o">>, type |-> "DO"],
     [kind |-> "literal", lit |-> <<"f", "o", "r">>, type |-> "FOR"],
     [kind |-> "function", lit |-> <<>>, type |-> "FUNCTION"],
     [kind |-> "literal", lit |-> <<"(">>, type |-> "PAREN_OPEN"],
     [kind |-> "literal", lit |-> <<")">>, type |-> "PAREN_CLOSE"],
     [kind |-> "literal", lit |-> <<"{">>, type |-> "BRACE_OPEN"],
     [kind |-> "literal", lit |-> <<"}">>, type |-> "BRACE_CLOSE"] >>

\* the rules in the order _init_tokenizer adds them
TokenInfos ==
  << [kind |-> "literal", lit |-> <<";">>, type |-> "SEMICOLON"],
     [kind |-> "literal", lit |-> <<"i", "f">>, type |-> "IF"],
     [kind |-> "literal", lit |-> <<"e", "l", "s", "e">>, type |-> "ELSE"],
     [kind |-> "literal", lit |-> <<"w", "h", "i", "l", "e">>, type |-> "WHILE"],
     [kind |-> "literal", lit |-> <<"d", "o">>, type |-> "DO"],
     [kind |-> "literal", lit |-> <<"f", "o", "r">>, type |-> "FOR"],
     [kind |-> "function", lit |-> <<>>, type |-> "FUNCTION"],
     [kind |-> "literal", lit |-> <<"(">>, type |-> "PAREN_OPEN"],
     [kind |-> "literal", lit |-> <<")">>, type |-> "PAREN_CLOSE"],
     [kind |-> "literal", lit |-> <<"{">>, type |-> "BRACE_OPEN"],
     [kind |-> "literal", lit |-> <<"}">>, type |-> "BRACE_CLOSE"],
     [kind |-> "statement", lit |-> <<>>, type |-> "STATEMENT"] >>

\* TokenInfo.matcher.match(s): length of the match at the start of s, 0 if none
Match(token_info, s) ==
  CASE token_info.kind = "literal" -> MatchLiteral(token_info.lit, s)
    [] token_info.kind = "function" -> MatchFunction(s)
    [] OTHER -> MatchStatement(s)

\* Tokenizer.tokenize: the loop over the rest of the stripped string
RECURSIVE tokenize_loop(_, _, _)
tokenize_loop(s, line, acc) ==
  IF s = <<>> THEN [tokens |-> acc, error |-> FALSE]
  ELSE LET hits == {i \in 1..Len(TokenInfos) : Match(TokenInfos[i], s) > 0}
       IN IF hits = {} THEN [tokens |-> acc, error |-> TRUE]
          ELSE LET i == CHOOSE j \in hits : \A k \in hits : j <= k
                   tok == SubSeq(s, 1, Match(TokenInfos[i], s))
               IN tokenize_loop(strip(replace(s, tok)), line,
                                Append(acc, Token(line, TokenInfos[i].type, tok)))

tokenize(string, line) == tokenize_loop(strip(string), line, <<>>)

(***************************************************************************)
(* FSM table                                                               *)
(***************************************************************************)
\* TokenState, in the order of the enumeration
TokenState ==
  << "ERROR", "INIT_START", "FUNCTION", "STATEMENT", "SEMICOLON", "WHILE",
     "DO", "FOR", "IF", "ELSE", "PAREN_OPEN", "PAREN_CLOSE", "BRACE_OPEN",
     "BRACE_CLOSE", "LAMBDA" >>

\* FSMState, in the order of the enumeration (the value is the position - 1)
FSMState ==
  << "ERROR", "INIT_START",
     "STATEMENT_START", "STATEMENT_MID", "STATEMENT_END",
     "IF_START", "IF_PAREN_OPEN", "IF_PAREN_STATEMENT", "IF_PAREN_CLOSE",
     "IF_THEN_BRACE_OPEN", "IF_THEN_STATEMENT", "IF_THEN_SINGLE_STATEMENT",
     "IF_THEN_END", "ELSE_IF_STATEMENT", "ELSE_IF_END", "IF_ELSE",
     "IF_ELSE_BRACE_OPEN", "IF_ELSE_STATEMENT", "IF_ELSE_SINGLE_STATEMENT",
     "IF_ELSE_END",
     "WHILE_START", "WHILE_PAREN_OPEN", "WHILE_PAREN_STATEMENT",
     "WHILE_PAREN_CLOSE", "WHILE_BRACE_OPEN", "WHILE_STATEMENT",
     "WHILE_SINGLE_STATEMENT", "WHILE_END",
     "DO_WHILE_START", "DO_WHILE_BRACE_OPEN", "DO_WHILE_STATEMENT",
     "DO_WHILE_BRACE_CLOSE", "DO_WHILE_KEYWORD", "DO_WHILE_PAREN_OPEN",
     "DO_WHILE_PAREN_STATEMENT", "DO_WHILE_PAREN_CLOSE", "DO_WHILE_END",
     "FOR_START", "FOR_PAREN_OPEN", "FOR_INIT", "FOR_INIT_END", "FOR_COND",
     "FOR_COND_END", "FOR_MODIFY", "FOR_PAREN_CLOSE", "FOR_BRACE_OPEN",
     "FOR_STATEMENT", "FOR_SINGLE_STATEMENT", "FOR_END",
     "FUNC_START", "FUNC_BRACE_OPEN", "FUNC_STATEMENT", "FUNC_END" >>

\* OrderedEnum: members compare by value
Value(state) == (CHOOSE i \in 1..Len(FSMState) : FSMState[i] = state) - 1

\* the _add_state_rule calls of each init function, in source order
InitRules ==
  << <<"INIT_START", "ERROR", "ERROR">>,
     <<"INIT_START", "STATEMENT", "STATEMENT_START">>,
     <<"INIT_START", "SEMICOLON", "STATEMENT_START">>,
     <<"INIT_START", "IF", "IF_START">>,
     <<"INIT_START", "WHILE", "WHILE_START">>,
     <<"INIT_START", "DO", "DO_WHILE_START">>,
     <<"INIT_START", "FOR", "FOR_START">>,
     <<"INIT_START", "FUNCTION", "FUNC_START">> >>

StatementRules ==
  << <<"STATEMENT_START", "STATEMENT", "STATEMENT_MID">>,
     <<"STATEMENT_MID", "STATEMENT", "STATEMENT_MID">>,
     <<"STATEMENT_MID", "SEMICOLON", "STATEMENT_END">>,
     <<"STATEMENT_START", "SEMICOLON", "STATEMENT_END">>,
     <<"STATEMENT_END", "STATEMENT", "STATEMENT_MID">>,
     <<"STATEMENT_END", "SEMICOLON", "STATEMENT_END">> >>

\* while rules that lack the transition for a for loop after a statement of
\* the body
WhileRules_no_nested_for ==
  << <<"WHILE_START", "PAREN_OPEN", "WHILE_PAREN_OPEN">>,
     <<"WHILE_PAREN_OPEN", "STATEMENT", "WHILE_PAREN_STATEMENT">>,
     <<"WHILE_PAREN_STATEMENT", "STATEMENT", "WHILE_PAREN_STATEMENT">>,
     <<"WHILE_PAREN_STATEMENT", "PAREN_CLOSE", "WHILE_PAREN_CLOSE">>,
     <<"WHILE_PAREN_STATEMENT", "DO", "WHILE_PAREN_CLOSE">>,
     <<"WHILE_PAREN_CLOSE", "BRACE_OPEN", "WHILE_BRACE_OPEN">>,
     <<"WHILE_PAREN_CLOSE", "SEMICOLON", "WHILE_END">>,
     <<"WHILE_PAREN_CLOSE", "STATEMENT", "WHILE_SINGLE_STATEMENT">>,
     <<"WHILE_PAREN_CLOSE", "IF", "WHILE_SINGLE_STATEMENT">>,
     <<"WHILE_PAREN_CLOSE", "WHILE", "WHILE_SINGLE_STATEMENT">>,
     <<"WHILE_PAREN_CLOSE", "DO", "WHILE_SINGLE_STATEMENT">>,
     <<"WHILE_PAREN_CLOSE", "FOR", "WHILE_SINGLE_STATEMENT">>,
     <<"WHILE_PAREN_CLOSE", "FUNCTION", "WHILE_SINGLE_STATEMENT">>,
     <<"WHILE_SINGLE_STATEMENT", "LAMBDA", "WHILE_END">>,
     <<"WHILE_BRACE_OPEN", "BRACE_CLOSE", "WHILE_END">>,
     <<"WHILE_BRACE_OPEN", "SEMICOLON", "WHILE_STATEMENT">>,
     <<"WHILE_BRACE_OPEN", "STATEMENT", "WHILE_STATEMENT">>,
     <<"WHILE_BRACE_OPEN", "IF", "WHILE_STATEMENT">>,
     <<"WHILE_BRACE_OPEN", "WHILE", "WHILE_STATEMENT">>,
     <<"WHILE_BRACE_OPEN", "DO", "WHILE_STATEMENT">>,
     <<"WHILE_BRACE_OPEN", "FOR", "WHILE_STATEMENT">>,
     <<"WHILE_BRACE_OPEN", "FUNCTION", "WHILE_STATEMENT">>,
     <<"WHILE_STATEMENT", "SEMICOLON", "WHILE_STATEMENT">>,
     <<"WHILE_STATEMENT", "STATEMENT", "WHILE_STATEMENT">>,
     <<"WHILE_STATEMENT", "IF", "WHILE_STATEMENT">>,
     <<"WHILE_STATEMENT", "WHILE", "WHILE_STATEMENT">>,
     <<"WHILE_STATEMENT", "DO", "WHILE_STATEMENT">>,
     <<"WHILE_STATEMENT", "FUNCTION", "WHILE_STATEMENT">>,
     <<"WHILE_STATEMENT", "BRACE_CLOSE", "WHILE_END">> >>

WhileRules ==
  << <<"WHILE_START", "PAREN_OPEN", "WHILE_PAREN_OPEN">>,
     <<"WHILE_PAREN_OPEN", "STATEMENT", "WHILE_PAREN_STATEMENT">>,
     <<"WHILE_PAREN_STATEMENT", "STATEMENT", "WHILE_PAREN_STATEMENT">>,
     <<"WHILE_PAREN_STATEMENT", "PAREN_CLOSE", "WHILE_PAREN_CLOSE">>,
     <<"WHILE_PAREN_STATEMENT", "DO", "WHILE_PAREN_CLOSE">>,
     <<"WHILE_PAREN_CLOSE", "BRACE_OPEN", "WHILE_BRACE_OPEN">>,
     <<"WHILE_PAREN_CLOSE", "SEMICOLON", "WHILE_END">>,
     <<"WHILE_PAREN_CLOSE", "STATEMENT", "WHILE_SINGLE_STATEMENT">>,
     <<"WHILE_PAREN_CLOSE", "IF", "WHILE_SINGLE_STATEMENT">>,
     <<"WHILE_PAREN_CLOSE", "WHILE", "WHILE_SINGLE_STATEMENT">>,
     <<"WHILE_PAREN_CLOSE", "DO", "WHILE_SINGLE_STATEMENT">>,
     <<"WHILE_PAREN_CLOSE", "FOR", "WHILE_SINGLE_STATEMENT">>,
     <<"WHILE_PAREN_CLOSE", "FUNCTION", "WHILE_SINGLE_STATEMENT">>,
     <<"WHILE_SINGLE_STATEMENT", "LAMBDA", "WHILE_END">>,
     <<"WHILE_BRACE_OPEN", "BRACE_CLOSE", "WHILE_END">>,
     <<"WHILE_BRACE_OPEN", "SEMICOLON", "WHILE_STATEMENT">>,
     <<"WHILE_BRACE_OPEN", "STATEMENT", "WHILE_STATEMENT">>,
     <<"WHILE_BRACE_OPEN", "IF", "WHILE_STATEMENT">>,
     <<"WHILE_BRACE_OPEN", "WHILE", "WHILE_STATEMENT">>,
     <<"WHILE_BRACE_OPEN", "DO", "WHILE_STATEMENT">>,
     <<"WHILE_BRACE_OPEN", "FOR", "WHILE_STATEMENT">>,
     <<"WHILE_BRACE_OPEN", "FUNCTION", "WHILE_STATEMENT">>,
     <<"WHILE_STATEMENT", "SEMICOLON", "WHILE_STATEMENT">>,
     <<"WHILE_STATEMENT", "STATEMENT", "WHILE_STATEMENT">>,
     <<"WHILE_STATEMENT", "IF", "WHILE_STATEMENT">>,
     <<"WHILE_STATEMENT", "WHILE", "WHILE_STATEMENT">>,
     <<"WHILE_STATEMENT", "DO", "WHILE_STATEMENT">>,
     <<"WHILE_STATEMENT", "FOR", "WHILE_STATEMENT">>,
     <<"WHILE_STATEMENT", "FUNCTION", "WHILE_STATEMENT">>,
     <<"WHILE_STATEMENT", "BRACE_CLOSE", "WHILE_END">> >>

\* do-while rules that lack the transition for a closing brace right after
\* the opening one
DoWhileRules_no_empty_body ==
  << <<"DO_WHILE_START", "BRACE_OPEN", "DO_WHILE_BRACE_OPEN">>,
     <<"DO_WHILE_BRACE_OPEN", "SEMICOLON", "DO_WHILE_STATEMENT">>,
     <<"DO_WHILE_BRACE_OPEN", "STATEMENT", "DO_WHILE_STATEMENT">>,
     <<"DO_WHILE_BRACE_OPEN", "IF", "DO_WHILE_STATEMENT">>,
     <<"DO_WHILE_BRACE_OPEN", "WHILE", "DO_WHILE_STATEMENT">>,
     <<"DO_WHILE_BRACE_OPEN", "DO", "DO_WHILE_STATEMENT">>,
     <<"DO_WHILE_BRACE_OPEN", "FOR", "DO_WHILE_STATEMENT">>,
     <<"DO_WHILE_BRACE_OPEN", "FUNCTION", "DO_WHILE_STATEMENT">>,
     <<"DO_WHILE_STATEMENT", "SEMICOLON", "DO_WHILE_STATEMENT">>,
     <<"DO_WHILE_STATEMENT", "STATEMENT", "DO_WHILE_STATEMENT">>,
     <<"DO_WHILE_STATEMENT", "IF", "DO_WHILE_STATEMENT">>,
     <<"DO_WHILE_STATEMENT", "WHILE", "DO_WHILE_STATEMENT">>,
     <<"DO_WHILE_STATEMENT", "DO", "DO_WHILE_STATEMENT">>,
     <<"DO_WHILE_STATEMENT", "FOR", "DO_WHILE_STATEMENT">>,
     <<"DO_WHILE_STATEMENT", "FUNCTION", "DO_WHILE_STATEMENT">>,
     <<"DO_WHILE_STATEMENT", "BRACE_CLOSE", "DO_WHILE_BRACE_CLOSE">>,
     <<"DO_WHILE_BRACE_CLOSE", "WHILE", "DO_WHILE_KEYWORD">>,
     <<"DO_WHILE_KEYWORD", "PAREN_OPEN", "DO_WHILE_PAREN_OPEN">>,
     <<"DO_WHILE_PAREN_OPEN", "SEMICOLON", "DO_WHILE_PAREN_STATEMENT">>,
     <<"DO_WHILE_PAREN_OPEN", "STATEMENT", "DO_WHILE_PAREN_STATEMENT">>,
     <<"DO_WHILE_PAREN_STATEMENT", "SEMICOLON", "DO_WHILE_PAREN_STATEMENT">>,
     <<"DO_WHILE_PAREN_STATEMENT", "STATEMENT", "DO_WHILE_PAREN_STATEMENT">>,
     <<"DO_WHILE_PAREN_STATEMENT", "PAREN_CLOSE", "DO_WHILE_PAREN_CLOSE">>,
     <<"DO_WHILE_PAREN_CLOSE", "SEMICOLON", "DO_WHILE_END">> >>

DoWhileRules ==
  << <<"DO_WHILE_START", "BRACE_OPEN", "DO_WHILE_BRACE_OPEN">>,
     <<"DO_WHILE_BRACE_OPEN", "BRACE_CLOSE", "DO_WHILE_BRACE_CLOSE">>,
     <<"DO_WHILE_BRACE_OPEN", "SEMICOLON", "DO_WHILE_STATEMENT">>,
     <<"DO_WHILE_BRACE_OPEN", "STATEMENT", "DO_WHILE_STATEMENT">>,
     <<"DO_WHILE_BRACE_OPEN", "IF", "DO_WHILE_STATEMENT">>,
     <<"DO_WHILE_BRACE_OPEN", "WHILE", "DO_WHILE_STATEMENT">>,
     <<"DO_WHILE_BRACE_OPEN", "DO", "DO_WHILE_STATEMENT">>,
     <<"DO_WHILE_BRACE_OPEN", "FOR", "DO_WHILE_STATEMENT">>,
     <<"DO_WHILE_BRACE_OPEN", "FUNCTION", "DO_WHILE_STATEMENT">>,
     <<"DO_WHILE_STATEMENT", "SEMICOLON", "DO_WHILE_STATEMENT">>,
     <<"DO_WHILE_STATEMENT", "STATEMENT", "DO_WHILE_STATEMENT">>,
     <<"DO_WHILE_STATEMENT", "IF", "DO_WHILE_STATEMENT">>,
     <<"DO_WHILE_STATEMENT", "WHILE", "DO_WHILE_STATEMENT">>,
     <<"DO_WHILE_STATEMENT", "DO", "DO_WHILE_STATEMENT">>,
     <<"DO_WHILE_STATEMENT", "FOR", "DO_WHILE_STATEMENT">>,
     <<"DO_WHILE_STATEMENT", "FUNCTION", "DO_WHILE_STATEMENT">>,
     <<"DO_WHILE_STATEMENT", "BRACE_CLOSE", "DO_WHILE_BRACE_CLOSE">>,
     <<"DO_WHILE_BRACE_CLOSE", "WHILE", "DO_WHILE_KEYWORD">>,
     <<"DO_WHILE_KEYWORD", "PAREN_OPEN", "DO_WHILE_PAREN_OPEN">>,
     <<"DO_WHILE_PAREN_OPEN", "SEMICOLON", "DO_WHILE_PAREN_STATEMENT">>,
     <<"DO_WHILE_PAREN_OPEN", "STATEMENT", "DO_WHILE_PAREN_STATEMENT">>,
     <<"DO_WHILE_PAREN_STATEMENT", "SEMICOLON", "DO_WHILE_PAREN_STATEMENT">>,
     <<"DO_WHILE_PAREN_STATEMENT", "STATEMENT", "DO_WHILE_PAREN_STATEMENT">>,
     <<"DO_WHILE_PAREN_STATEMENT", "PAREN_CLOSE", "DO_WHILE_PAREN_CLOSE">>,
     <<"DO_WHILE_PAREN_CLOSE", "SEMICOLON", "DO_WHILE_END">> >>

IfRules ==
  << <<"IF_START", "PAREN_OPEN", "IF_PAREN_OPEN">>,
     <<"IF_START", "SEMICOLON", "IF_THEN_END">>,
     <<"IF_PAREN_OPEN", "STATEMENT", "IF_PAREN_STATEMENT">>,
     <<"IF_PAREN_STATEMENT", "STATEMENT", "IF_PAREN_STATEMENT">>,
     <<"IF_PAREN_STATEMENT", "PAREN_CLOSE", "IF_PAREN_CLOSE">>,
     <<"IF_PAREN_CLOSE", "BRACE_OPEN", "IF_THEN_BRACE_OPEN">>,
     <<"IF_PAREN_CLOSE", "SEMICOLON", "IF_THEN_END">>,
     <<"IF_PAREN_CLOSE", "STATEMENT", "IF_THEN_SINGLE_STATEMENT">>,
     <<"IF_PAREN_CLOSE", "IF", "IF_THEN_SINGLE_STATEMENT">>,
     <<"IF_PAREN_CLOSE", "WHILE", "IF_THEN_SINGLE_STATEMENT">>,
     <<"IF_PAREN_CLOSE", "DO", "IF_THEN_SINGLE_STATEMENT">>,
     <<"IF_PAREN_CLOSE", "FOR", "IF_THEN_SINGLE_STATEMENT">>,
     <<"IF_PAREN_CLOSE", "FUNCTION", "IF_THEN_SINGLE_STATEMENT">>,
     <<"IF_THEN_SINGLE_STATEMENT", "ELSE", "IF_ELSE">>,
     <<"IF_PAREN_CLOSE", "BRACE_OPEN", "IF_THEN_BRACE_OPEN">>,
     <<"IF_THEN_BRACE_OPEN", "BRACE_CLOSE", "IF_THEN_END">>,
     <<"IF_THEN_BRACE_OPEN", "SEMICOLON", "IF_THEN_STATEMENT">>,
     <<"IF_THEN_BRACE_OPEN", "STATEMENT", "IF_THEN_STATEMENT">>,
     <<"IF_THEN_BRACE_OPEN", "IF", "IF_THEN_STATEMENT">>,
     <<"IF_THEN_BRACE_OPEN", "WHILE", "IF_THEN_STATEMENT">>,
     <<"IF_THEN_BRACE_OPEN", "DO", "IF_THEN_STATEMENT">>,
     <<"IF_THEN_BRACE_OPEN", "FOR", "IF_THEN_STATEMENT">>,
     <<"IF_THEN_BRACE_OPEN", "FUNCTION", "IF_THEN_STATEMENT">>,
     <<"IF_THEN_STATEMENT", "SEMICOLON", "IF_THEN_STATEMENT">>,
     <<"IF_THEN_STATEMENT", "STATEMENT", "IF_THEN_STATEMENT">>,
     <<"IF_THEN_STATEMENT", "IF", "IF_THEN_STATEMENT">>,
     <<"IF_THEN_STATEMENT", "WHILE", "IF_THEN_STATEMENT">>,
     <<"IF_THEN_STATEMENT", "DO", "IF_THEN_STATEMENT">>,
     <<"IF_THEN_STATEMENT", "FOR", "IF_THEN_STATEMENT">>,
     <<"IF_THEN_STATEMENT", "FUNCTION", "IF_THEN_STATEMENT">>,
     <<"IF_THEN_STATEMENT", "BRACE_CLOSE", "IF_THEN_END">>,
     <<"IF_ELSE", "IF", "ELSE_IF_STATEMENT">>,
     <<"ELSE_IF_STATEMENT", "LAMBDA", "ELSE_IF_END">>,
     <<"ELSE_IF_STATEMENT", "ELSE", "IF_ELSE">>,
     <<"IF_THEN_END", "ELSE", "IF_ELSE">>,
     <<"IF_ELSE", "SEMICOLON", "IF_ELSE_END">>,
     <<"IF_ELSE", "STATEMENT", "IF_ELSE_SINGLE_STATEMENT">>,
     <<"IF_ELSE", "WHILE", "IF_ELSE_SINGLE_STATEMENT">>,
     <<"IF_ELSE", "DO", "IF_ELSE_SINGLE_STATEMENT">>,
     <<"IF_ELSE", "FOR", "IF_ELSE_SINGLE_STATEMENT">>,
     <<"IF_ELSE", "FUNCTION", "IF_ELSE_SINGLE_STATEMENT">>,
     <<"IF_ELSE_SINGLE_STATEMENT", "LAMBDA", "IF_ELSE_END">>,
     <<"IF_ELSE", "BRACE_OPEN", "IF_ELSE_BRACE_OPEN">>,
     <<"IF_ELSE_BRACE_OPEN", "BRACE_CLOSE", "IF_ELSE_END">>,
     <<"IF_ELSE_BRACE_OPEN", "SEMICOLON", "IF_ELSE_STATEMENT">>,
     <<"IF_ELSE_BRACE_OPEN", "STATEMENT", "IF_ELSE_STATEMENT">>,
     <<"IF_ELSE_BRACE_OPEN", "IF", "IF_ELSE_STATEMENT">>,
     <<"IF_ELSE_BRACE_OPEN", "WHILE", "IF_ELSE_STATEMENT">>,
     <<"IF_ELSE_BRACE_OPEN", "DO", "IF_ELSE_STATEMENT">>,
     <<"IF_ELSE_BRACE_OPEN", "FOR", "IF_ELSE_STATEMENT">>,
     <<"IF_ELSE_BRACE_OPEN", "FUNCTION", "IF_ELSE_STATEMENT">>,
     <<"IF_ELSE_STATEMENT", "SEMICOLON", "IF_ELSE_STATEMENT">>,
     <<"IF_ELSE_STATEMENT", "STATEMENT", "IF_ELSE_STATEMENT">>,
     <<"IF_ELSE_STATEMENT", "IF", "IF_ELSE_STATEMENT">>,
     <<"IF_ELSE_STATEMENT", "WHILE", "IF_ELSE_STATEMENT">>,
     <<"IF_ELSE_STATEMENT", "DO", "IF_ELSE_STATEMENT">>,
     <<"IF_ELSE_STATEMENT", "FOR", "IF_ELSE_STATEMENT">>,
     <<"IF_ELSE_STATEMENT", "FUNCTION", "IF_ELSE_STATEMENT">>,
     <<"IF_ELSE_STATEMENT", "BRACE_CLOSE", "IF_ELSE_END">> >>

ForRules ==
  << <<"FOR_START", "PAREN_OPEN", "FOR_PAREN_OPEN">>,
     <<"FOR_PAREN_OPEN", "SEMICOLON", "FOR_INIT_END">>,
     <<"FOR_PAREN_OPEN", "STATEMENT", "FOR_INIT">>,
     <<"FOR_INIT", "SEMICOLON", "FOR_INIT_END">>,
     <<"FOR_INIT_END", "SEMICOLON", "FOR_COND_END">>,
     <<"FOR_INIT_END", "STATEMENT", "FOR_COND">>,
     <<"FOR_COND", "SEMICOLON", "FOR_COND_END">>,
     <<"FOR_COND_END", "PAREN_CLOSE", "FOR_PAREN_CLOSE">>,
     <<"FOR_COND_END", "STATEMENT", "FOR_MODIFY">>,
     <<"FOR_MODIFY", "PAREN_CLOSE", "FOR_PAREN_CLOSE">>,
     <<"FOR_PAREN_CLOSE", "SEMICOLON", "FOR_END">>,
     <<"FOR_PAREN_CLOSE", "STATEMENT", "FOR_SINGLE_STATEMENT">>,
     <<"FOR_PAREN_CLOSE", "IF", "FOR_SINGLE_STATEMENT">>,
     <<"FOR_PAREN_CLOSE", "WHILE", "FOR_SINGLE_STATEMENT">>,
     <<"FOR_PAREN_CLOSE", "DO", "FOR_SINGLE_STATEMENT">>,
     <<"FOR_PAREN_CLOSE", "FOR", "FOR_SINGLE_STATEMENT">>,
     <<"FOR_PAREN_CLOSE", "FUNCTION", "FOR_SINGLE_STATEMENT">>,
     <<"FOR_SINGLE_STATEMENT", "LAMBDA", "FOR_END">>,
     <<"FOR_PAREN_CLOSE", "BRACE_OPEN", "FOR_BRACE_OPEN">>,
     <<"FOR_BRACE_OPEN", "BRACE_CLOSE", "FOR_END">>,
     <<"FOR_BRACE_OPEN", "SEMICOLON", "FOR_STATEMENT">>,
     <<"FOR_BRACE_OPEN", "STATEMENT", "FOR_STATEMENT">>,
     <<"FOR_BRACE_OPEN", "IF", "FOR_STATEMENT">>,
     <<"FOR_BRACE_OPEN", "WHILE", "FOR_STATEMENT">>,
     <<"FOR_BRACE_OPEN", "DO", "FOR_STATEMENT">>,
     <<"FOR_BRACE_OPEN", "FOR", "FOR_STATEMENT">>,
     <<"FOR_BRACE_OPEN", "FUNCTION", "FOR_STATEMENT">>,
     <<"FOR_STATEMENT", "SEMICOLON", "FOR_STATEMENT">>,
     <<"FOR_STATEMENT", "STATEMENT", "FOR_STATEMENT">>,
     <<"FOR_STATEMENT", "IF", "FOR_STATEMENT">>,
     <<"FOR_STATEMENT", "WHILE", "FOR_STATEMENT">>,
     <<"FOR_STATEMENT", "DO", "FOR_STATEMENT">>,
     <<"FOR_STATEMENT", "FOR", "FOR_STATEMENT">>,
     <<"FOR_STATEMENT", "FUNCTION", "FOR_STATEMENT">>,
     <<"FOR_STATEMENT", "BRACE_CLOSE", "FOR_END">> >>

\* function rules that lack the transition for a semicolon right after the
\* function token
FunctionRules_no_shortcut ==
  << <<"FUNC_START", "BRACE_OPEN", "FUNC_BRACE_OPEN">>,
     <<"FUNC_BRACE_OPEN", "BRACE_CLOSE", "FUNC_END">>,
     <<"FUNC_BRACE_OPEN", "SEMICOLON", "FUNC_STATEMENT">>,
     <<"FUNC_BRACE_OPEN", "STATEMENT", "FUNC_STATEMENT">>,
     <<"FUNC_BRACE_OPEN", "IF", "FUNC_STATEMENT">>,
     <<"FUNC_BRACE_OPEN", "WHILE", "FUNC_STATEMENT">>,
     <<"FUNC_BRACE_OPEN", "DO", "FUNC_STATEMENT">>,
     <<"FUNC_BRACE_OPEN", "FOR", "FUNC_STATEMENT">>,
     <<"FUNC_BRACE_OPEN", "FUNCTION", "FUNC_STATEMENT">>,
     <<"FUNC_STATEMENT", "SEMICOLON", "FUNC_STATEMENT">>,
     <<"FUNC_STATEMENT", "STATEMENT", "FUNC_STATEMENT">>,
     <<"FUNC_STATEMENT", "IF", "FUNC_STATEMENT">>,
     <<"FUNC_STATEMENT", "WHILE", "FUNC_STATEMENT">>,
     <<"FUNC_STATEMENT", "DO", "FUNC_STATEMENT">>,
     <<"FUNC_STATEMENT", "FOR", "FUNC_STATEMENT">>,
     <<"FUNC_STATEMENT", "FUNCTION", "FUNC_STATEMENT">>,
     <<"FUNC_STATEMENT", "BRACE_CLOSE", "FUNC_END">> >>

FunctionRules ==
  << <<"FUNC_START", "BRACE_OPEN", "FUNC_BRACE_OPEN">>,
     <<"FUNC_START", "SEMICOLON", "FUNC_END">>,
     <<"FUNC_BRACE_OPEN", "BRACE_CLOSE", "FUNC_END">>,
     <<"FUNC_BRACE_OPEN", "SEMICOLON", "FUNC_STATEMENT">>,
     <<"FUNC_BRACE_OPEN", "STATEMENT", "FUNC_STATEMENT">>,
     <<"FUNC_BRACE_OPEN", "IF", "FUNC_STATEMENT">>,
     <<"FUNC_BRACE_OPEN", "WHILE", "FUNC_STATEMENT">>,
     <<"FUNC_BRACE_OPEN", "DO", "FUNC_STATEMENT">>,
     <<"FUNC_BRACE_OPEN", "FOR", "FUNC_STATEMENT">>,
     <<"FUNC_BRACE_OPEN", "FUNCTION", "FUNC_STATEMENT">>,
     <<"FUNC_STATEMENT", "SEMICOLON", "FUNC_STATEMENT">>,
     <<"FUNC_STATEMENT", "STATEMENT", "FUNC_STATEMENT">>,
     <<"FUNC_STATEMENT", "IF", "FUNC_STATEMENT">>,
     <<"FUNC_STATEMENT", "WHILE", "FUNC_STATEMENT">>,
     <<"FUNC_STATEMENT", "DO", "FUNC_STATEMENT">>,
     <<"FUNC_STATEMENT", "FOR", "FUNC_STATEMENT">>,
     <<"FUNC_STATEMENT", "FUNCTION", "FUNC_STATEMENT">>,
     <<"FUNC_STATEMENT", "BRACE_CLOSE", "FUNC_END">> >>

Rules ==
  InitRules \o StatementRules \o WhileRules \o DoWhileRules \o IfRules
    \o ForRules \o FunctionRules

\* _add_state_rule on a table filled with ERROR: the last rule set wins
states ==
  [s \in {FSMState[i] : i \in 1..Len(FSMState)} |->
    [k \in {TokenState[i] : i \in 1..Len(TokenState)} |->
      LET hits == {i \in 1..Len(Rules) : Rules[i][1] = s /\ Rules[i][2] = k}
      IN IF hits = {} THEN "ERROR"
         ELSE Rules[CHOOSE j \in hits : \A i \in hits : i <= j][3]]]

\* DecompStates, the names of the enumeration
DecompStates ==
  {"C1", "C1_END", "D0", "D0_END", "D1", "D1_END", "D2", "D2_END",
   "D3", "D3_END", "F1", "F1_END", "P1"}

\* a mapping that knows the kinds of the heads and of the statements only
map_FSM_to_Decomp_heads_only(state) ==
  CASE Value("STATEMENT_START") <= Value(state)
         /\ Value(state) <= Value("STATEMENT_END") -> "P1"
    [] state = "IF_START" -> "D0"
    [] state = "WHILE_START" -> "D2"
    [] state = "DO_WHILE_START" -> "D3"
    [] state = "FUNC_START" -> "F1"
    [] OTHER -> "None"

\* _map_FSM_to_Decomp; "None" when no range holds the state
map_FSM_to_Decomp(state) ==
  LET v == Value(state)
      in(a, b) == Value(a) <= v /\ v <= Value(b)
  IN CASE in("STATEMENT_START", "STATEMENT_END") -> "P1"
       [] in("IF_START", "IF_ELSE_END") ->
            (CASE state = "IF_START" -> "D0"
               [] Value("IF_START") < v /\ v <= Value("IF_THEN_END") -> "D0_END"
               [] state = "IF_ELSE" -> "D1"
               [] OTHER -> "D1_END")
       [] in("WHILE_START", "WHILE_END") ->
            (IF state = "WHILE_START" THEN "D2" ELSE "D2_END")
       [] in("DO_WHILE_START", "DO_WHILE_END") ->
            (IF state = "DO_WHILE_START" THEN "D3" ELSE "D3_END")
       [] in("FOR_START", "FOR_END") ->
            (CASE in("FOR_START", "FOR_INIT_END") -> "P1"
               [] in("FOR_COND", "FOR_COND_END") -> "D0"
               [] OTHER -> "D0_END")
       [] in("FUNC_START", "FUNC_END") ->
            (IF state = "FUNC_START" THEN "F1" ELSE "F1_END")
       [] OTHER -> "None"

is_fsm_start_state(state) ==
  state \in {"STATEMENT_START", "IF_START", "WHILE_START", "DO_WHILE_START",
             "FOR_START", "FUNC_START"}

(***************************************************************************)
(* Node.  Nodes live in a heap; a node reference is its position there.    *)
(* heap[1] is the walker root Node(-1) of parse_tokens.                    *)
(***************************************************************************)
None == 0

Node(val, toks) ==
  [val |-> val, type |-> "None", tokens |-> toks,
   parents |-> <<>>, children |-> <<>>]

\* Node.__eq__: the same object, or equal val, type and tokens
NodeEq(hp, a, o) ==
  \/ a = o
  \/ /\ hp[a].val = hp[o].val
     /\ hp[a].type = hp[o].type
     /\ Len(hp[a].tokens) = Len(hp[o].tokens)
     /\ \A i \in 1..Len(hp[a].tokens) : TokenEq(hp[a].tokens[i], hp[o].tokens[i])

(***************************************************************************)
(* Parser.  ps is the parser's mutable state while the builders run:       *)
(* heap (all Node objects), nodes (self.nodes), tokens (the deque), exc    *)
(* (the exception in flight, "none" if none) and grammar_error (the token  *)
(* at which a builder met ERROR without success, <<>> if none).            *)
(***************************************************************************)
Ret(ps, ret) == [ps |-> ps, ret |-> ret]

raise(ps, e) == [ps EXCEPT !.exc = e]

\* tokens.popleft()
popleft(ps) == [ps EXCEPT !.tokens = Tail(@)]

\* node.tokens.append(token)
add_token(ps, node, token) ==
  [ps EXCEPT !.heap[node].tokens = Append(@, token)]

\* a link that forgets child.parents.append(parent)
link_one_way(ps, parent, child) ==
  [ps EXCEPT !.heap[parent].children = Append(@, child)]

\* child.parents.append(parent); parent.children.append(child)
link(ps, parent, child) ==
  LET h1 == [ps.heap EXCEPT ![child].parents = Append(@, parent)]
      h2 == [h1 EXCEPT ![parent].children = Append(@, child)]
  IN [ps EXCEPT !.heap = h2]

\* Node(val) with its tokens and type set, appended to self.nodes;
\* the new node's reference is Len(ps.heap) + 1
create(ps, val, type, toks) ==
  [ps EXCEPT !.heap = Append(@, [Node(val, toks) EXCEPT !.type = type]),
             !.nodes = Append(@, Len(ps.heap) + 1)]

\* a node made for the list but hung under no parent
create_unlinked(ps, walker, parent, type, toks) ==
  create(ps, ps.heap[walker].val + 1, type, toks)

\* Node(walker.val+1), linked under parent
create_under(ps, walker, parent, type, toks) ==
  link(create(ps, ps.heap[walker].val + 1, type, toks), parent, Len(ps.heap) + 1)

\* walker.tokens[-1]
last_token(ps, walker) == ps.heap[walker].tokens[Len(ps.heap[walker].tokens)]

\* a placeholder token that keeps the text of the walker's last token
empty_token_keeps_text(ps, walker) ==
  Token(last_token(ps, walker).line, "DecompStates.P1", last_token(ps, walker).sequence)

\* Token(walker.tokens[-1].line, DecompStates.P1, "")
empty_token(ps, walker) == Token(last_token(ps, walker).line, "DecompStates.P1", <<>>)

\* print("Error parsing token grammar for " + token): str + Token is a
\* TypeError, so nothing is printed and the return after it is not reached
grammar_error_at(ps, token) ==
  [ps EXCEPT !.exc = "TypeError", !.grammar_error = <<token>>]

RECURSIVE build_tree(_, _)
RECURSIVE statement_loop(_, _, _)
RECURSIVE if_loop(_, _, _)
RECURSIVE while_loop(_, _, _)
RECURSIVE do_while_loop(_, _, _)
RECURSIVE for_loop(_, _, _)
RECURSIVE function_loop(_, _, _)

\* build_statement_tree: the while loop
statement_loop(ps, walker, state) ==
  IF ps.tokens = <<>> THEN Ret(ps, walker)
  ELSE LET peek_token == Head(ps.tokens)
           peek_state == states[state][peek_token.type]
       IN IF peek_state = "ERROR"
          THEN Ret(grammar_error_at(ps, peek_token), None)
          ELSE LET p1 == add_token(popleft(ps), walker, peek_token)
               IN IF peek_state = "STATEMENT_END" THEN Ret(p1, walker)
                  ELSE statement_loop(p1, walker, peek_state)

build_statement_tree(ps, root) ==
  IF root = None THEN Ret(ps, root)
  ELSE LET token == Head(ps.tokens)
           state == states["INIT_START"][token.type]
           p1 == popleft(ps)
       IN IF state # "STATEMENT_START" THEN Ret(p1, root)
          ELSE IF p1.heap[root].type # "P1"
               THEN statement_loop(
                      create_under(p1, root, root, map_FSM_to_Decomp(state), <<token>>),
                      Len(p1.heap) + 1, state)
               ELSE statement_loop(add_token(p1, root, token), root, state)

\* build_if_tree: the while loop; L holds state, walker, last_walkers, is_success
if_loop(ps, start_node, L) ==
  IF ps.tokens = <<>> THEN [ps |-> ps, L |-> L]
  ELSE
  LET peek_token == Head(ps.tokens)
      peek_state == states[L.state][peek_token.type]
  IN
  IF peek_state = "ERROR" THEN
    IF L.is_success THEN [ps |-> ps, L |-> L]
    ELSE [ps |-> grammar_error_at(ps, peek_token), L |-> L]
  ELSE IF peek_state \in {"IF_THEN_SINGLE_STATEMENT", "ELSE_IF_STATEMENT",
                          "IF_ELSE_SINGLE_STATEMENT"} THEN
    LET r == build_tree(ps, L.walker)
    IN IF r.ps.exc # "none" THEN [ps |-> r.ps, L |-> L]
       \* walker.val of None
       ELSE IF r.ret = None THEN [ps |-> raise(r.ps, "AttributeError"), L |-> L]
       ELSE LET last_walker == Len(r.ps.heap) + 1
                p1 == create_under(r.ps, r.ret, r.ret, map_FSM_to_Decomp(peek_state),
                                   <<last_token(r.ps, r.ret)>>)
            IN if_loop(p1, start_node,
                       [L EXCEPT !.walker = last_walker,
                                 !.last_walkers = Append(@, last_walker),
                                 !.is_success = TRUE,
                                 !.state = peek_state])
  ELSE IF peek_state \in {"IF_THEN_STATEMENT", "IF_ELSE_STATEMENT"} THEN
    LET r == build_tree(ps, L.walker)
    IN IF r.ps.exc # "none" THEN [ps |-> r.ps, L |-> L]
       ELSE IF r.ret = None THEN [ps |-> raise(r.ps, "AttributeError"), L |-> L]
       ELSE if_loop(r.ps, start_node, [L EXCEPT !.walker = r.ret, !.state = peek_state])
  ELSE IF peek_state = "IF_ELSE" THEN
    LET new_node == Len(ps.heap) + 1
        p1 == create_under(popleft(ps), L.walker, start_node, "None", <<peek_token>>)
        \* In else branch, IF node is no longer D0 but D1
        p2 == [p1 EXCEPT !.heap[start_node].type = "D1"]
    IN if_loop(p2, start_node, [L EXCEPT !.walker = new_node, !.state = peek_state])
  ELSE IF peek_state \in {"IF_THEN_END", "ELSE_IF_END", "IF_ELSE_END"} THEN
    LET empty == L.state \in {"IF_THEN_BRACE_OPEN", "IF_ELSE_BRACE_OPEN"}
        p1 == IF empty
              THEN create_under(ps, L.walker, L.walker, "P1", <<empty_token(ps, L.walker)>>)
              ELSE ps
        walker == IF empty THEN Len(ps.heap) + 1 ELSE L.walker
        last_walker == Len(p1.heap) + 1
        p2 == create_under(popleft(p1), walker, walker, map_FSM_to_Decomp(peek_state),
                           <<peek_token>>)
    IN if_loop(p2, start_node,
               [L EXCEPT !.walker = last_walker,
                         !.last_walkers = Append(@, last_walker),
                         !.is_success = TRUE,
                         !.state = peek_state])
  ELSE
    if_loop(add_token(popleft(ps), L.walker, peek_token), start_node,
            [L EXCEPT !.state = peek_state])

\* a finalisation that leaves the last walkers unconnected
link_no_last_walkers(ps, last_walkers, end_node) == ps

\* end_node.parents.append(w); w.children.append(end_node), for each last walker
RECURSIVE link_last_walkers(_, _, _)
link_last_walkers(ps, last_walkers, end_node) ==
  IF last_walkers = <<>> THEN ps
  ELSE link_last_walkers(link(ps, Head(last_walkers), end_node),
                         Tail(last_walkers), end_node)

\* build_if_tree, after the loop: r holds the parser state and the locals
finish_if_tree(r, start_node) ==
  IF r.ps.exc # "none" THEN Ret(r.ps, None)
  ELSE
  \* Finalize CFG structure
  LET end_node == Len(r.ps.heap) + 1
      p3 == create(r.ps, r.ps.heap[r.L.walker].val + 1,
                   map_FSM_to_Decomp(r.L.state), <<last_token(r.ps, r.L.walker)>>)
      p4 == IF Len(p3.heap[start_node].children) < 2
            THEN link(p3, start_node, end_node)
            ELSE p3
  IN Ret(link_last_walkers(p4, r.L.last_walkers, end_node), end_node)

build_if_tree(ps, root) ==
  IF root = None THEN Ret(ps, root)
  ELSE
  LET token == Head(ps.tokens)
      state == states["INIT_START"][token.type]
      start_node == Len(ps.heap) + 1
  IN
  IF state # "IF_START" THEN Ret(popleft(ps), root)
  ELSE finish_if_tree(
         if_loop(create_under(popleft(ps), root, root, map_FSM_to_Decomp(state),
                              <<token>>),
                 start_node,
                 [state |-> state, walker |-> start_node,
                  last_walkers |-> <<>>, is_success |-> FALSE]),
         start_node)

\* build_while_tree: the while loop; L holds state, walker, end_node, is_success
while_loop(ps, start_node, L) ==
  IF ps.tokens = <<>> THEN [ps |-> ps, L |-> L]
  ELSE
  LET peek_token == Head(ps.tokens)
      peek_state == states[L.state][peek_token.type]
  IN
  IF peek_state = "ERROR" THEN
    IF L.is_success THEN [ps |-> ps, L |-> L]
    ELSE [ps |-> grammar_error_at(ps, peek_token), L |-> L]
  ELSE IF peek_state \in {"WHILE_STATEMENT", "WHILE_SINGLE_STATEMENT"} THEN
    LET r == build_tree(ps, L.walker)
    IN IF r.ps.exc # "none" THEN [ps |-> r.ps, L |-> L]
       ELSE IF r.ret = None THEN [ps |-> raise(r.ps, "AttributeError"), L |-> L]
       ELSE IF peek_state = "WHILE_SINGLE_STATEMENT"
            THEN [ps |-> r.ps, L |-> [L EXCEPT !.walker = r.ret, !.is_success = TRUE]]
            ELSE while_loop(r.ps, start_node,
                            [L EXCEPT !.walker = r.ret, !.state = peek_state])
  ELSE IF peek_state = "WHILE_END" THEN
    LET empty == L.state = "WHILE_BRACE_OPEN"
        p1 == IF empty
              THEN create_under(ps, L.walker, L.walker, "P1", <<empty_token(ps, L.walker)>>)
              ELSE ps
        walker == IF empty THEN Len(ps.heap) + 1 ELSE L.walker
        end_node == Len(p1.heap) + 1
        p2 == create(popleft(p1), p1.heap[walker].val + 1,
                     map_FSM_to_Decomp(peek_state), <<peek_token>>)
    IN while_loop(p2, start_node,
                  [L EXCEPT !.walker = walker, !.end_node = end_node,
                            !.is_success = TRUE, !.state = peek_state])
  ELSE
    while_loop(add_token(popleft(ps), L.walker, peek_token), start_node,
               [L EXCEPT !.state = peek_state])

\* a finalisation of the while loop that forgets the back-edge
finish_while_tree_no_back_edge(r, start_node) ==
  IF r.ps.exc # "none" THEN Ret(r.ps, None)
  ELSE
  LET walker == r.L.walker
      end_node == IF r.L.end_node = None THEN Len(r.ps.heap) + 1 ELSE r.L.end_node
      p4 == IF r.L.end_node = None
            THEN create(r.ps, r.ps.heap[walker].val + 1, map_FSM_to_Decomp(r.L.state),
                        <<last_token(r.ps, walker)>>)
            ELSE r.ps
  IN Ret(link(p4, start_node, end_node), end_node)

\* a finalisation that also links the end node back to the head
finish_while_tree_exit_loops_back(r, start_node) ==
  IF r.ps.exc # "none" THEN Ret(r.ps, None)
  ELSE
  LET walker == r.L.walker
      p3 == link(r.ps, walker, start_node)
      end_node == IF r.L.end_node = None THEN Len(p3.heap) + 1 ELSE r.L.end_node
      p4 == IF r.L.end_node = None
            THEN create(p3, p3.heap[walker].val + 1, map_FSM_to_Decomp(r.L.state),
                        <<last_token(p3, walker)>>)
            ELSE p3
  IN Ret(link(link(p4, start_node, end_node), end_node, start_node), end_node)

\* build_while_tree, after the loop: r holds the parser state and the locals
finish_while_tree(r, start_node) ==
  IF r.ps.exc # "none" THEN Ret(r.ps, None)
  ELSE
  \* Finalize CFG structure
  LET walker == r.L.walker
      \* Link walker to start node
      p3 == link(r.ps, walker, start_node)
      \* Create end node if it does not exist using last token
      end_node == IF r.L.end_node = None THEN Len(p3.heap) + 1 ELSE r.L.end_node
      p4 == IF r.L.end_node = None
            THEN create(p3, p3.heap[walker].val + 1, map_FSM_to_Decomp(r.L.state),
                        <<last_token(p3, walker)>>)
            ELSE p3
  \* Link start node to end node
  IN Ret(link(p4, start_node, end_node), end_node)

build_while_tree(ps, root) ==
  IF root = None THEN Ret(ps, root)
  ELSE
  LET token == Head(ps.tokens)
      state == states["INIT_START"][token.type]
      start_node == Len(ps.heap) + 1
  IN
  IF state # "WHILE_START" THEN Ret(popleft(ps), root)
  ELSE finish_while_tree(
         while_loop(create_under(popleft(ps), root, root, map_FSM_to_Decomp(state),
                                 <<token>>),
                    start_node,
                    [state |-> state, walker |-> start_node,
                     end_node |-> None, is_success |-> FALSE]),
         start_node)

\* build_do_while_tree: the while loop; L holds state, walker, end_node
do_while_loop(ps, start_node, L) ==
  IF ps.tokens = <<>> THEN [ps |-> ps, L |-> L]
  ELSE
  LET peek_token == Head(ps.tokens)
      peek_state == states[L.state][peek_token.type]
  IN
  IF peek_state = "ERROR" THEN
    IF L.is_success THEN [ps |-> ps, L |-> L]
    ELSE [ps |-> grammar_error_at(ps, peek_token), L |-> L]
  ELSE IF peek_state = "DO_WHILE_STATEMENT" THEN
    LET r == build_tree(ps, L.walker)
    IN IF r.ps.exc # "none" THEN [ps |-> r.ps, L |-> L]
       ELSE IF r.ret = None THEN [ps |-> raise(r.ps, "AttributeError"), L |-> L]
       ELSE do_while_loop(r.ps, start_node,
                          [L EXCEPT !.walker = r.ret, !.state = peek_state])
  ELSE IF peek_state = "DO_WHILE_END" THEN
    [ps |-> add_token(popleft(ps), L.walker, peek_token),
     L |-> [L EXCEPT !.end_node = L.walker, !.is_success = TRUE]]
  ELSE IF peek_state = "DO_WHILE_BRACE_CLOSE" /\ L.state = "DO_WHILE_BRACE_OPEN" THEN
    \* empty body {}: the node holds the closing brace
    do_while_loop(create_under(popleft(ps), L.walker, L.walker, "P1", <<peek_token>>),
                  start_node,
                  [L EXCEPT !.walker = Len(ps.heap) + 1, !.state = peek_state])
  ELSE IF peek_state = "DO_WHILE_KEYWORD" THEN
    do_while_loop(create_under(popleft(ps), L.walker, L.walker, "None", <<peek_token>>),
                  start_node,
                  [L EXCEPT !.walker = Len(ps.heap) + 1, !.state = peek_state])
  ELSE
    do_while_loop(add_token(popleft(ps), L.walker, peek_token), start_node,
                  [L EXCEPT !.state = peek_state])

\* a finalisation of the do-while loop that leaves the tail node without its kind
finish_do_while_tree_untyped(r, start_node) ==
  LET end_node == r.L.end_node
  IN
  IF r.ps.exc # "none" THEN Ret(r.ps, None)
  ELSE IF end_node = None \/ NodeEq(r.ps.heap, end_node, start_node)
  THEN Ret(raise(r.ps, "TypeError"), None)
  ELSE Ret(link(r.ps, end_node, start_node), end_node)

\* a finalisation of the do-while loop that forgets the back-edge
finish_do_while_tree_no_back_edge(r, start_node) ==
  LET end_node == r.L.end_node
  IN
  IF r.ps.exc # "none" THEN Ret(r.ps, None)
  ELSE IF end_node = None \/ NodeEq(r.ps.heap, end_node, start_node)
  THEN Ret(raise(r.ps, "TypeError"), None)
  ELSE Ret([r.ps EXCEPT !.heap[end_node].type = map_FSM_to_Decomp(r.L.state)],
           end_node)

\* build_do_while_tree, after the loop: r holds the parser state and the locals
finish_do_while_tree(r, start_node) ==
  LET end_node == r.L.end_node
  IN
  IF r.ps.exc # "none" THEN Ret(r.ps, None)
  \* Error check: the diagnostic is str + Token again
  ELSE IF end_node = None \/ NodeEq(r.ps.heap, end_node, start_node)
  THEN Ret(raise(r.ps, "TypeError"), None)
  ELSE
  \* Link end node to start node
  LET p3 == [r.ps EXCEPT !.heap[end_node].type = map_FSM_to_Decomp(r.L.state)]
  IN Ret(link(p3, end_node, start_node), end_node)

build_do_while_tree(ps, root) ==
  IF root = None THEN Ret(ps, root)
  ELSE
  LET token == Head(ps.tokens)
      state == states["INIT_START"][token.type]
      start_node == Len(ps.heap) + 1
  IN
  IF state # "DO_WHILE_START" THEN Ret(popleft(ps), root)
  ELSE finish_do_while_tree(
         do_while_loop(create_under(popleft(ps), root, root, map_FSM_to_Decomp(state),
                                    <<token>>),
                       start_node,
                       [state |-> state, walker |-> start_node,
                        end_node |-> None, is_success |-> FALSE]),
         start_node)

\* build_for_tree: the while loop; L holds state, walker, end_node, for_cond,
\* for_body_last_walker, for_modify, is_success
for_loop(ps, start_node, L) ==
  IF ps.tokens = <<>> THEN [ps |-> ps, L |-> L]
  ELSE
  LET peek_token == Head(ps.tokens)
      peek_state == states[L.state][peek_token.type]
  IN
  IF peek_state = "ERROR" THEN
    IF L.is_success THEN [ps |-> ps, L |-> L]
    ELSE [ps |-> grammar_error_at(ps, peek_token), L |-> L]
  ELSE IF peek_state \in {"FOR_COND", "FOR_COND_END"} THEN
    IF L.for_cond = None
    THEN for_loop(create_under(popleft(ps), L.walker, start_node,
                               map_FSM_to_Decomp(peek_state), <<peek_token>>),
                  start_node,
                  [L EXCEPT !.for_cond = Len(ps.heap) + 1,
                            !.walker = Len(ps.heap) + 1, !.state = peek_state])
    ELSE for_loop(add_token(popleft(ps), L.walker, peek_token), start_node,
                  [L EXCEPT !.state = peek_state])
  ELSE IF peek_state \in {"FOR_MODIFY", "FOR_PAREN_CLOSE"} THEN
    IF L.for_modify = None
    THEN \* for_cond.parents of None
         IF L.for_cond = None
         THEN [ps |-> raise(popleft(ps), "AttributeError"), L |-> L]
         ELSE LET for_modify == Len(ps.heap) + 1
                  p1 == create(popleft(ps), ps.heap[L.walker].val + 1, "None",
                               <<peek_token>>)
              \* Link for_modify to for_cond
              IN for_loop(link(p1, for_modify, L.for_cond), start_node,
                          [L EXCEPT !.for_modify = for_modify,
                                    !.walker = for_modify, !.state = peek_state])
    ELSE for_loop(add_token(popleft(ps), L.walker, peek_token), start_node,
                  [L EXCEPT !.state = peek_state])
  ELSE IF peek_state \in {"FOR_STATEMENT", "FOR_SINGLE_STATEMENT"} THEN
    \* for_cond.val of None
    IF L.for_cond = None THEN [ps |-> raise(ps, "AttributeError"), L |-> L]
    ELSE
    LET old_for_cond_val == ps.heap[L.for_cond].val
        p1 == [ps EXCEPT !.heap[L.for_cond].val = ps.heap[L.walker].val]
        r == build_tree(p1, L.for_cond)
        \* Restore old value
        p2 == [r.ps EXCEPT !.heap[L.for_cond].val = old_for_cond_val]
    IN IF r.ps.exc # "none" THEN [ps |-> r.ps, L |-> L]
       ELSE IF peek_state = "FOR_SINGLE_STATEMENT"
            THEN [ps |-> p2,
                  L |-> [L EXCEPT !.walker = r.ret, !.for_body_last_walker = r.ret,
                                  !.is_success = TRUE]]
            ELSE IF r.ret = None THEN [ps |-> raise(p2, "AttributeError"), L |-> L]
            ELSE for_loop(p2, start_node,
                          [L EXCEPT !.walker = r.ret, !.for_body_last_walker = r.ret,
                                    !.state = peek_state])
  ELSE IF peek_state = "FOR_END" THEN
    LET empty == L.state = "FOR_BRACE_OPEN"
        p1 == IF empty
              THEN create_under(ps, L.walker, L.for_cond, "P1",
                                <<empty_token(ps, L.walker)>>)
              ELSE ps
        walker == IF empty THEN Len(ps.heap) + 1 ELSE L.walker
        end_node == Len(p1.heap) + 1
        p2 == create(popleft(p1), p1.heap[walker].val + 1,
                     map_FSM_to_Decomp(peek_state), <<peek_token>>)
    IN [ps |-> p2,
        L |-> [L EXCEPT !.walker = walker, !.end_node = end_node,
                        !.for_body_last_walker =
                            IF empty THEN walker ELSE L.for_body_last_walker]]
  ELSE
    for_loop(add_token(popleft(ps), L.walker, peek_token), start_node,
             [L EXCEPT !.state = peek_state])

\* a finalisation of the for loop that links the body tail to the end node
\* instead of the modify node
finish_for_tree_tail_to_end(r, start_node) ==
  LET L == r.L
  IN
  IF r.ps.exc # "none" THEN Ret(r.ps, None)
  ELSE IF L.for_cond = None \/ L.for_modify = None
  THEN Ret(raise(r.ps, "TypeError"), None)
  ELSE IF L.walker = None THEN Ret(raise(r.ps, "AttributeError"), None)
  ELSE
  LET end_node == IF L.end_node = None THEN Len(r.ps.heap) + 1 ELSE L.end_node
      p3 == IF L.end_node = None
            THEN create(r.ps, r.ps.heap[L.walker].val + 1, map_FSM_to_Decomp(L.state),
                        <<last_token(r.ps, L.walker)>>)
            ELSE r.ps
      p4 == link(p3, L.for_cond, end_node)
      p5 == IF L.for_body_last_walker # None
            THEN link(p4, L.for_body_last_walker, end_node)
            ELSE link(p4, L.for_cond, L.for_modify)
  IN Ret(p5, end_node)

\* build_for_tree, after the loop: r holds the parser state and the locals
finish_for_tree(r, start_node) ==
  LET L == r.L
  IN
  IF r.ps.exc # "none" THEN Ret(r.ps, None)
  \* Error check: the diagnostic is str + Token again
  ELSE IF L.for_cond = None \/ L.for_modify = None
  THEN Ret(raise(r.ps, "TypeError"), None)
  \* walker.val of None, after a single-statement body
  ELSE IF L.walker = None THEN Ret(raise(r.ps, "AttributeError"), None)
  ELSE
  \* Finalize CFG structure
  LET end_node == IF L.end_node = None THEN Len(r.ps.heap) + 1 ELSE L.end_node
      p3 == IF L.end_node = None
            THEN create(r.ps, r.ps.heap[L.walker].val + 1, map_FSM_to_Decomp(L.state),
                        <<last_token(r.ps, L.walker)>>)
            ELSE r.ps
      \* Link for_cond to end_node
      p4 == link(p3, L.for_cond, end_node)
      p5 == IF L.for_body_last_walker # None
            THEN link(p4, L.for_body_last_walker, L.for_modify)
            ELSE link(p4, L.for_cond, L.for_modify)
  IN Ret(p5, end_node)

build_for_tree(ps, root) ==
  IF root = None THEN Ret(ps, root)
  ELSE
  LET token == Head(ps.tokens)
      state == states["INIT_START"][token.type]
      start_node == Len(ps.heap) + 1
  IN
  IF state # "FOR_START" THEN Ret(popleft(ps), root)
  ELSE finish_for_tree(
         for_loop(create_under(popleft(ps), root, root, map_FSM_to_Decomp(state),
                               <<token>>),
                  start_node,
                  [state |-> state, walker |-> start_node, end_node |-> None,
                   for_cond |-> None, for_body_last_walker |-> None,
                   for_modify |-> None, is_success |-> FALSE]),
         start_node)

\* build_function_tree: the while loop; L holds state, walker, end_node, ran
\* (whether the loop body ran, that is whether peek_token is bound)
function_loop(ps, start_node, L) ==
  IF ps.tokens = <<>> THEN [ps |-> ps, L |-> L]
  ELSE
  LET peek_token == Head(ps.tokens)
      peek_state == states[L.state][peek_token.type]
      L1 == [L EXCEPT !.ran = TRUE]
  IN
  IF peek_state = "ERROR" THEN
    IF L.is_success THEN [ps |-> ps, L |-> L1]
    ELSE [ps |-> grammar_error_at(ps, peek_token), L |-> L1]
  ELSE IF peek_state = "FUNC_STATEMENT" THEN
    LET r == build_tree(ps, L.walker)
    IN IF r.ps.exc # "none" THEN [ps |-> r.ps, L |-> L1]
       ELSE IF r.ret = None THEN [ps |-> raise(r.ps, "AttributeError"), L |-> L1]
       ELSE function_loop(r.ps, start_node,
                          [L1 EXCEPT !.walker = r.ret, !.state = peek_state])
  ELSE IF peek_state = "FUNC_END" THEN
    LET empty == L.state = "FUNC_BRACE_OPEN"
        p1 == IF empty
              THEN create_under(ps, L.walker, L.walker, "P1", <<empty_token(ps, L.walker)>>)
              ELSE ps
        walker == IF empty THEN Len(ps.heap) + 1 ELSE L.walker
        p2 == popleft(p1)
    IN \* a function that ends in a SEMICOLON is a statement
       IF peek_token.type = "SEMICOLON"
       THEN [ps |-> add_token([p2 EXCEPT !.heap[start_node].type = "P1"],
                              start_node, peek_token),
             L |-> [L1 EXCEPT !.walker = walker, !.end_node = start_node,
                              !.is_success = TRUE]]
       ELSE [ps |-> create_under(p2, walker, walker, map_FSM_to_Decomp(peek_state),
                                 <<peek_token>>),
             L |-> [L1 EXCEPT !.walker = walker, !.end_node = Len(p2.heap) + 1,
                              !.is_success = TRUE]]
  ELSE
    function_loop(add_token(popleft(ps), L.walker, peek_token), start_node,
                  [L1 EXCEPT !.state = peek_state])

\* build_function_tree, after the loop: r holds the parser state and the locals
finish_function_tree(r) ==
  IF r.ps.exc # "none" THEN Ret(r.ps, None)
  \* the diagnostic names peek_token: unbound if the loop never ran, and
  \* str + Token otherwise
  ELSE IF r.L.end_node = None
  THEN Ret(raise(r.ps, IF r.L.ran THEN "TypeError" ELSE "UnboundLocalError"), None)
  ELSE Ret(r.ps, r.L.end_node)

build_function_tree(ps, root) ==
  IF root = None THEN Ret(ps, root)
  ELSE
  LET token == Head(ps.tokens)
      state == states["INIT_START"][token.type]
      start_node == Len(ps.heap) + 1
  IN
  IF state # "FUNC_START" THEN Ret(popleft(ps), root)
  ELSE finish_function_tree(
         function_loop(create_under(popleft(ps), root, root, map_FSM_to_Decomp(state),
                                    <<token>>),
                       start_node,
                       [state |-> state, walker |-> start_node, end_node |-> None,
                        is_success |-> FALSE, ran |-> FALSE]))

\* build_tree, always called without a state
build_tree(ps, root) ==
  LET peek_token == Head(ps.tokens)
      state == states["INIT_START"][peek_token.type]
  IN CASE ~is_fsm_start_state(state) -> Ret(ps, None)
       [] state = "STATEMENT_START" -> build_statement_tree(ps, root)
       [] state = "IF_START" -> build_if_tree(ps, root)
       [] state = "WHILE_START" -> build_while_tree(ps, root)
       [] state = "DO_WHILE_START" -> build_do_while_tree(ps, root)
       [] state = "FOR_START" -> build_for_tree(ps, root)
       [] OTHER -> build_function_tree(ps, root)

\* parse_tokens: the loop over the deque, from the walker root heap[1]
RECURSIVE parse_tokens_loop(_, _)
\* the rest of one iteration, r being what build_tree returned
parse_tokens_next(r, peek_token, walker) ==
  IF r.ps.exc # "none" THEN r.ps
  ELSE parse_tokens_loop(
         IF r.ps.tokens # <<>> /\ TokenEq(peek_token, Head(r.ps.tokens))
         THEN popleft(r.ps)
         ELSE r.ps,
         IF r.ret # None THEN r.ret ELSE walker)

\* a loop that stops after the first construct
parse_tokens_loop_once(ps, walker) ==
  IF ps.tokens = <<>> THEN ps ELSE build_tree(ps, walker).ps

parse_tokens_loop(ps, walker) ==
  IF ps.tokens = <<>> THEN ps
  ELSE parse_tokens_next(build_tree(ps, walker), Head(ps.tokens), walker)

\* a parse_tokens that leaves the walker root among the first node's parents
parse_tokens_keeps_root(ps) == parse_tokens_loop(ps, 1)

\* parse_tokens, after the loop: the first child of the walker root forgets the root
pop_root_skipped(p1) == p1

pop_root(p1) ==
  LET root == p1.heap[1]
  IN IF p1.exc = "none" /\ root.children # <<>>
        /\ p1.heap[root.children[1]].parents # <<>>
     THEN [p1 EXCEPT !.heap[root.children[1]].parents = Tail(@)]
     ELSE p1

\* parse_tokens
parse_tokens(ps) == pop_root(parse_tokens_loop(ps, 1))

(***************************************************************************)
(* ControlFlowGraph.minimize_nodes.  ms holds heap, nodes (the node_list   *)
(* being minimised, self.nodes) and exc.                                   *)
(***************************************************************************)
\* the key f"T:{node_type} L:{line}" of node_map
node_key(hp, n) ==
  <<hp[n].type, IF hp[n].tokens # <<>> THEN hp[n].tokens[1].line ELSE -1>>

\* node_map.values(): the deques, in the order their keys first appear
RECURSIVE node_map(_, _, _)
node_map(hp, node_list, i) ==
  IF i > Len(node_list) THEN <<>>
  ELSE LET same(n) == node_key(hp, n) = node_key(hp, node_list[i])
       IN IF \E j \in 1..(i - 1) : same(node_list[j])
          THEN node_map(hp, node_list, i + 1)
          ELSE <<SelectSeq(node_list, same)>> \o node_map(hp, node_list, i + 1)

\* x in d, for a dict keyed by nodes: equal hash (val) and ==
in_dict(hp, keys, x) == \E i \in 1..Len(keys) : NodeEq(hp, keys[i], x)

\* position list.remove(x) removes: the first element == x; 0 stands for ValueError
remove_position(hp, list, x) ==
  LET hits == {i \in 1..Len(list) : NodeEq(hp, list[i], x)}
  IN IF hits = {} THEN 0 ELSE CHOOSE i \in hits : \A j \in hits : i <= j

remove_at(list, i) == SubSeq(list, 1, i - 1) \o SubSeq(list, i + 1, Len(list))

\* for parent in node.parents, from the i-th on
RECURSIVE merge_parents(_, _, _, _, _)
merge_parents(ms, root, node, root_parents, i) ==
  IF ms.exc # "none" \/ i > Len(ms.heap[node].parents) THEN ms
  ELSE LET parent == ms.heap[node].parents[i]
       IN IF parent # root /\ ~in_dict(ms.heap, root_parents, parent)
          THEN LET \* Add parent to root's parent
                   h1 == [ms.heap EXCEPT ![root].parents = Append(@, parent)]
                   \* Add root to parent's child
                   h2 == [h1 EXCEPT ![parent].children = Append(@, root)]
                   \* Remove node from parent's children
                   j == remove_position(h2, h2[parent].children, node)
               IN IF j = 0
                  THEN [ms EXCEPT !.heap = h2, !.exc = "ValueError"]
                  ELSE merge_parents(
                         [ms EXCEPT !.heap = [h2 EXCEPT ![parent].children = remove_at(@, j)]],
                         root, node, root_parents, i + 1)
          ELSE merge_parents(ms, root, node, root_parents, i + 1)

\* for child in node.children, from the i-th on
RECURSIVE merge_children(_, _, _, _, _)
merge_children(ms, root, node, root_children, i) ==
  IF ms.exc # "none" \/ i > Len(ms.heap[node].children) THEN ms
  ELSE LET child == ms.heap[node].children[i]
       IN IF child # root /\ ~in_dict(ms.heap, root_children, child)
          THEN LET \* Add children to root's children
                   h1 == [ms.heap EXCEPT ![root].children = Append(@, child)]
                   \* Add root to children's parent
                   h2 == [h1 EXCEPT ![child].parents = Append(@, root)]
                   \* Remove node from children's parents
                   j == remove_position(h2, h2[child].parents, node)
               IN IF j = 0
                  THEN [ms EXCEPT !.heap = h2, !.exc = "ValueError"]
                  ELSE merge_children(
                         [ms EXCEPT !.heap = [h2 EXCEPT ![child].parents = remove_at(@, j)]],
                         root, node, root_children, i + 1)
          ELSE merge_children(ms, root, node, root_children, i + 1)

\* a merge that forgets node_list.remove(node)
remove_merged_keeps_node(ms, root, node) ==
  LET j == remove_position(ms.heap, ms.heap[root].children, node)
  IN IF ms.exc # "none" THEN ms
     ELSE IF j = 0 THEN [ms EXCEPT !.exc = "ValueError"]
     ELSE [ms EXCEPT !.heap[root].children = remove_at(@, j)]

\* node_list.remove(node); root.children.remove(node)
remove_merged(ms, root, node) ==
  LET i == remove_position(ms.heap, ms.nodes, node)
      j == remove_position(ms.heap, ms.heap[root].children, node)
  IN IF ms.exc # "none" THEN ms
     ELSE IF i = 0 THEN [ms EXCEPT !.exc = "ValueError"]
     ELSE IF j = 0 THEN [ms EXCEPT !.nodes = remove_at(@, i), !.exc = "ValueError"]
     ELSE [ms EXCEPT !.nodes = remove_at(@, i),
                     !.heap[root].children = remove_at(@, j)]

\* the body of "for node in nodes" for one node of a cluster
merge_node(ms, root, node, root_parents, root_children) ==
  remove_merged(
    merge_children(merge_parents(ms, root, node, root_parents, 1),
                   root, node, root_children, 1),
    root, node)

\* for node in nodes, over the rest of a cluster whose first node was popped
RECURSIVE merge_cluster(_, _, _, _, _)
merge_cluster(ms, root, rest, root_parents, root_children) ==
  IF ms.exc # "none" \/ rest = <<>> THEN ms
  ELSE merge_cluster(merge_node(ms, root, Head(rest), root_parents, root_children),
                     root, Tail(rest), root_parents, root_children)

\* a loop over the clusters that skips those of fewer than three nodes
RECURSIVE merge_clusters_from_three(_, _)
merge_clusters_from_three(ms, clusters) ==
  IF ms.exc # "none" \/ clusters = <<>> THEN ms
  ELSE LET cluster == Head(clusters)
           root == Head(cluster)
       IN IF Len(cluster) < 3 THEN merge_clusters_from_three(ms, Tail(clusters))
          ELSE merge_clusters_from_three(
                 merge_cluster(ms, root, Tail(cluster),
                               ms.heap[root].parents, ms.heap[root].children),
                 Tail(clusters))

\* for nodes in node_map.values()
RECURSIVE merge_clusters(_, _)
merge_clusters(ms, clusters) ==
  IF ms.exc # "none" \/ clusters = <<>> THEN ms
  ELSE LET cluster == Head(clusters)
           root == Head(cluster)
       IN IF Len(cluster) < 2 THEN merge_clusters(ms, Tail(clusters))
          ELSE merge_clusters(
                 merge_cluster(ms, root, Tail(cluster),
                               ms.heap[root].parents, ms.heap[root].children),
                 Tail(clusters))

minimize_nodes(hp, node_list) ==
  merge_clusters([heap |-> hp, nodes |-> node_list, exc |-> "none"],
                 node_map(hp, node_list, 1))

(***************************************************************************)
(* ControlFlowGraph.get_edges_from_nodes                                   *)
(***************************************************************************)
\* an extraction that takes one edge per node, to its first child
edges_of_first_child(hp, n, i) ==
  IF hp[n].children = <<>> THEN <<>> ELSE <<(<<n, hp[n].children[1]>>)>>

RECURSIVE edges_of(_, _, _)
edges_of(hp, n, i) ==
  IF i > Len(hp[n].children) THEN <<>>
  ELSE <<(<<n, hp[n].children[i]>>)>> \o edges_of(hp, n, i + 1)

RECURSIVE get_edges_from_nodes(_, _)
get_edges_from_nodes(hp, node_list) ==
  IF node_list = <<>> THEN <<>>
  ELSE edges_of(hp, Head(node_list), 1) \o get_edges_from_nodes(hp, Tail(node_list))

(***************************************************************************)
(* Input lines: the texts add_string is called with.                      *)
(***************************************************************************)
\* x = 1;
LineS1 ==
  <<"x", " ", "=", " ", "1", ";">>
\* if (c) { a; }
LineS2 ==
  <<"i", "f", " ", "(", "c", ")", " ", "{", " ", "a", ";", " ", "}">>
\* if (c) a; else b;
LineS3 ==
  <<"i", "f", " ", "(", "c", ")", " ", "a", ";", " ", "e", "l", "s", "e",
     " ", "b", ";">>
\* while (c) { a; }
LineS4 ==
  <<"w", "h", "i", "l", "e", " ", "(", "c", ")", " ", "{", " ", "a", ";",
     " ", "}">>
\* do { a; } while (c);
LineS5 ==
  <<"d", "o", " ", "{", " ", "a", ";", " ", "}", " ", "w", "h", "i", "l",
     "e", " ", "(", "c", ")", ";">>
\* for (i=0; i<n; i++) { a; }
LineS6 ==
  <<"f", "o", "r", " ", "(", "i", "=", "0", ";", " ", "i", "<", "n", ";",
     " ", "i", "+", "+", ")", " ", "{", " ", "a", ";", " ", "}">>
\* ;
LineSemi ==
  <<";">>
\* a; b;
LineTwoStatements ==
  <<"a", ";", " ", "b", ";">>
\* foo();
LineCall ==
  <<"f", "o", "o", "(", ")", ";">>
\* f() {
LineFuncOpen ==
  <<"f", "(", ")", " ", "{">>
\* if (c) {
LineIfOpen ==
  <<"i", "f", " ", "(", "c", ")", " ", "{">>
\* if (c)
LineIfHead ==
  <<"i", "f", " ", "(", "c", ")">>
\* if (c);
LineIfSemi ==
  <<"i", "f", " ", "(", "c", ")", ";">>
\* if x
LineIfBad ==
  <<"i", "f", " ", "x">>
\* else
LineElse ==
  <<"e", "l", "s", "e">>
\* } else {
LineElseOpen ==
  <<"}", " ", "e", "l", "s", "e", " ", "{">>
\* a;
LineStatement ==
  <<"a", ";">>
\* a; }
LineStatementClose ==
  <<"a", ";", " ", "}">>
\* { a; }
LineBlock ==
  <<"{", " ", "a", ";", " ", "}">>
\* }
LineClose ==
  <<"}">>
\* while (c) {
LineWhileOpen ==
  <<"w", "h", "i", "l", "e", " ", "(", "c", ")", " ", "{">>
\* while (c)
LineWhileHead ==
  <<"w", "h", "i", "l", "e", " ", "(", "c", ")">>
\* while (c
LineWhileCut ==
  <<"w", "h", "i", "l", "e", " ", "(", "c">>
\* do {
LineDoOpen ==
  <<"d", "o", " ", "{">>
\* } while (c);
LineDoTail ==
  <<"}", " ", "w", "h", "i", "l", "e", " ", "(", "c", ")", ";">>
\* for (;;)
LineForHead ==
  <<"f", "o", "r", " ", "(", ";", ";", ")">>
\*   
LineBlank ==
  <<" ", " ">>
\* Done ;
LineUpper ==
  <<"D", "o", "n", "e", " ", ";">>
\* for (;;) {
LineForOpen ==
  <<"f", "o", "r", " ", "(", ";", ";", ")", " ", "{">>
\* a; b; }
LineTwoStatementsClose ==
  <<"a", ";", " ", "b", ";", " ", "}">>
\* else if (d) b;
LineElseIf ==
  <<"e", "l", "s", "e", " ", "i", "f", " ", "(", "d", ")", " ", "b", ";">>
\* else c;
LineElseStatement ==
  <<"e", "l", "s", "e", " ", "c", ";">>

Lines ==
  { LineS1, LineS2, LineS3, LineS4, LineS5, LineS6, LineSemi,
    LineTwoStatements, LineCall, LineFuncOpen, LineIfOpen, LineIfHead,
    LineIfSemi, LineIfBad, LineElse, LineElseOpen, LineStatement,
    LineStatementClose, LineBlock, LineClose, LineWhileOpen,
    LineWhileHead, LineWhileCut, LineDoOpen, LineDoTail, LineForHead,
    LineBlank, LineUpper, LineForOpen, LineTwoStatementsClose,
    LineElseIf, LineElseStatement }

(***************************************************************************)
(* The program: add_string calls, then parse() in its four steps.          *)
(***************************************************************************)
\* ControlFlowGraph.__init__ and Parser.__init__
Init ==
  /\ strings = <<>>
  /\ tokens = <<>>
  /\ heap = <<>>
  /\ nodes = <<>>
  /\ bound = FALSE
  /\ edges = <<>>
  /\ output = <<>>
  /\ exc = "none"
  /\ grammar_error = <<>>
  /\ pc = "add_string"

\* ControlFlowGraph.nodes: its own empty list until parse() binds parser.nodes
cfg_nodes == IF bound THEN nodes ELSE <<>>

\* ControlFlowGraph.add_string
AddString(string) ==
  /\ pc = "add_string"
  /\ Len(strings) < MaxLines
  /\ strings' = Append(strings, string)
  /\ UNCHANGED <<tokens, heap, nodes, bound, edges, output, exc, grammar_error, pc>>

\* Parser.parse: for i, string in enumerate(self.strings), from the i-th on
RECURSIVE tokenize_strings(_, _, _)
tokenize_strings(strs, i, acc) ==
  IF i > Len(strs) THEN [tokens |-> acc, error |-> FALSE]
  ELSE LET r == tokenize(strs[i], i)
       IN IF r.error THEN [tokens |-> acc, error |-> TRUE]
          ELSE tokenize_strings(strs, i + 1, acc \o r.tokens)

\* Parser.parse, up to the call of parse_tokens; a TokenizerError is printed
\* and parse returns
Tokenize ==
  /\ pc = "add_string"
  /\ \E r \in {tokenize_strings(strings, 1, tokens)} :
        /\ tokens' = r.tokens
        /\ output' = IF r.error THEN Append(output, "No match found for string") ELSE output
        /\ pc' = IF r.error THEN "minimize" ELSE "parse_tokens"
  /\ UNCHANGED <<strings, heap, nodes, bound, edges, exc, grammar_error>>

\* Parser.parse_tokens
ParseTokens ==
  /\ pc = "parse_tokens"
  /\ \E ps \in {parse_tokens([heap |-> <<Node(-1, <<>>)>>, nodes |-> nodes,
                               tokens |-> tokens, exc |-> "none",
                               grammar_error |-> <<>>])} :
        /\ heap' = ps.heap
        /\ nodes' = ps.nodes
        /\ tokens' = ps.tokens
        /\ exc' = ps.exc
        /\ grammar_error' = ps.grammar_error
        /\ pc' = IF ps.exc = "none" THEN "minimize" ELSE "raised"
  /\ UNCHANGED <<strings, bound, edges, output>>

\* ControlFlowGraph.parse: self.nodes = self.parser.nodes; minimize_nodes
Minimize ==
  /\ pc = "minimize"
  /\ bound' = TRUE
  /\ \E ms \in {minimize_nodes(heap, nodes)} :
        /\ heap' = ms.heap
        /\ nodes' = ms.nodes
        /\ exc' = ms.exc
        /\ pc' = IF ms.exc = "none" THEN "get_edges" ELSE "raised"
  /\ UNCHANGED <<strings, tokens, edges, output, grammar_error>>

\* ControlFlowGraph.parse: self.edges = get_edges_from_nodes(self.nodes)
GetEdges ==
  /\ pc = "get_edges"
  /\ edges' = get_edges_from_nodes(heap, cfg_nodes)
  /\ pc' = "done"
  /\ UNCHANGED <<strings, tokens, heap, nodes, bound, output, exc, grammar_error>>

Next ==
  \/ \E string \in Lines : AddString(string)
  \/ Tokenize
  \/ ParseTokens
  \/ Minimize
  \/ GetEdges

Spec == Init /\ [][Next]_vars

\* the step that leaves the call of parse_tokens, by its return or by the
\* exception that escapes it
ParseTokensReturns ==
  /\ pc = "parse_tokens"
  /\ pc' \in {"minimize", "raised"}

\* Parser.parse calls parse_tokens as soon as the lines are tokenised and
\* nothing else runs meanwhile: the step of the call is taken
SpecParse == Spec /\ WF_pc(ParseTokensReturns)

(***************************************************************************)
(* The tokenizer alone: one add_string call with any short line over the   *)
(* characters the rules tell apart, then Parser.parse up to parse_tokens.  *)
(***************************************************************************)
\* a keyword letter in upper and in lower case, a plain letter, white space
\* and the characters of the literal rules
Alphabet == {"D", "o", "a", " ", ";", "(", ")", "{"}

\* the lines of at most MaxLen characters
ShortLines == UNION {[1..n -> Alphabet] : n \in 0..MaxLen}

\* ControlFlowGraph.add_string, called once
AddShortLine ==
  /\ pc = "add_string"
  /\ strings = <<>>
  /\ \E string \in ShortLines : AddString(string)

NextTokenizer ==
  \/ AddShortLine
  \/ Tokenize

SpecTokenizer == Init /\ [][NextTokenizer]_vars
(***************************************************************************)
(* Properties                                                              *)
(***************************************************************************)
Range(s) == {s[i] : i \in 1..Len(s)}

\* parse() has ended, by returning or by an exception leaving it
Ended == pc \in {"done", "raised"}

\* the token kinds Parser.parse hands to parse_tokens for the added strings
Kinds ==
  LET toks == tokenize_strings(strings, 1, <<>>).tokens
  IN [i \in 1..Len(toks) |-> toks[i].type]

\* the directed edges between nodes of the final list, as a set
EdgeSet ==
  {e \in Range(cfg_nodes) \X Range(cfg_nodes) : e[2] \in Range(heap[e[1]].children)}

\* the nodes of the final list without a parent
Entries == {n \in Range(cfg_nodes) : heap[n].parents = <<>>}

\* the nodes the builders created that the minimiser took out of the list
Merged == (2..Len(heap)) \ Range(cfg_nodes)

\* C1: no exception ever escapes parse(): whatever the input, parse() ends
\* by returning, after printing a diagnostic if something went wrong.
C1_NoExceptionEscapes == exc = "none" /\ pc # "raised"

\* C2: after a parse() that reported no error, for all nodes a and b of the
\* final node list, b is among a's children exactly if a is among b's
\* parents; the builders establish this and the minimiser preserves it.
C2_ReciprocalAdjacency ==
  (exc = "none" /\ output = <<>> /\ pc \in {"minimize", "get_edges", "done"}) =>
    \A a, b \in Range(nodes) :
      b \in Range(heap[a].children) <=> a \in Range(heap[b].parents)

\* a parse that ended without error, in which the minimiser merged nodes and
\* the final graph has several edges
C2_Witness == pc = "done" /\ Merged # {} /\ Len(edges) >= 3

\* C3 as stated: after an error-free parse of a non-empty input exactly one
\* node of the final list has no parent, also when the first construct is a
\* loop.
C3_SingleEntryAlways ==
  (pc = "done" /\ cfg_nodes # <<>>) => Cardinality(Entries) = 1

\* C3: after an error-free parse with a non-empty node list, the only node
\* without a parent is the first node of the list, unless that node is the
\* head of a while or do-while loop: the head keeps the parent of its
\* back-edge, and then no node of the list is without a parent.
C3_SingleEntry ==
  (pc = "done" /\ cfg_nodes # <<>>) =>
    IF heap[cfg_nodes[1]].type \in {"D2", "D3"}
    THEN Entries = {}
    ELSE Entries = {cfg_nodes[1]}

\* an error-free parse of a program of several nodes that starts with a loop
C3_Witness ==
  pc = "done" /\ Len(cfg_nodes) >= 3 /\ heap[cfg_nodes[1]].type \in {"D2", "D3"}

\* C4: a sub-builder that meets a token its grammar does not allow prints a
\* diagnostic that names the token and returns normally, and the offending
\* token is still the first of the token queue.
C4_GrammarErrorDiagnosed ==
  grammar_error # <<>> =>
    /\ exc = "none"
    /\ output # <<>>
    /\ tokens # <<>>
    /\ Head(tokens) = grammar_error[1]

\* C5: after minimisation no two nodes of the node list share the key
\* (decomposition kind, line of the first token).
C5_UniqueKeys ==
  pc \in {"get_edges", "done"} =>
    \A i, j \in 1..Len(cfg_nodes) :
      i # j => node_key(heap, cfg_nodes[i]) # node_key(heap, cfg_nodes[j])

\* a minimisation that took out a node whose key a remaining node carries
C5_Witness ==
  /\ pc \in {"get_edges", "done"}
  /\ \E m \in Merged : \E n \in Range(cfg_nodes) :
       node_key(heap, m) = node_key(heap, n)

\* C6: minimising an already minimised node list changes nothing: the same
\* list, the same parents and children of every node, and no exception.
C6_MinimiseIdempotent ==
  pc = "done" =>
    LET ms == minimize_nodes(heap, cfg_nodes)
    IN ms.exc = "none" /\ ms.heap = heap /\ ms.nodes = cfg_nodes

\* a finished parse whose first minimisation took out two nodes or more
C6_Witness == pc = "done" /\ Cardinality(Merged) >= 2

\* C7: "if (c) a; else b;" parses to five nodes, among them a D1 head, the
\* P1 of the then branch, the P1 of the else branch and a D1_END, with the
\* edges head -> then, head -> else, then -> end and else -> end.
C7_IfElseScenario ==
  (strings = <<LineS3>> /\ Ended) =>
    /\ pc = "done"
    /\ Len(cfg_nodes) = 5
    /\ \E d1, then_node, else_node, d1_end \in Range(cfg_nodes) :
         /\ then_node # else_node
         /\ heap[d1].type = "D1"
         /\ heap[then_node].type = "P1"
         /\ heap[else_node].type = "P1"
         /\ heap[d1_end].type = "D1_END"
         /\ {<<d1, then_node>>, <<d1, else_node>>,
             <<then_node, d1_end>>, <<else_node, d1_end>>} \subseteq EdgeSet

\* C8: "for (i=0; i<n; i++) { a; }" parses to the nodes P1 (init), D0
\* (condition), P1 (body), modify and D0_END with the edges init -> cond,
\* cond -> body, body -> modify, modify -> cond and cond -> end.
C8_ForScenario ==
  (strings = <<LineS6>> /\ Ended) =>
    /\ pc = "done"
    /\ Len(cfg_nodes) = 5
    /\ \E init, cond, body, modify, end \in Range(cfg_nodes) :
         /\ Cardinality({init, cond, body, modify, end}) = 5
         /\ heap[init].type = "P1"
         /\ heap[cond].type = "D0"
         /\ heap[body].type = "P1"
         /\ heap[end].type = "D0_END"
         /\ {<<init, cond>>, <<cond, body>>, <<body, modify>>,
             <<modify, cond>>, <<cond, end>>} \subseteq EdgeSet

\* C9 as stated: "x = 1;" parses to exactly one P1 node that holds three
\* tokens, and no edge.
C9_StatementThreeTokens ==
  (strings = <<LineS1>> /\ Ended) =>
    /\ pc = "done"
    /\ Len(cfg_nodes) = 1
    /\ heap[cfg_nodes[1]].type = "P1"
    /\ Len(heap[cfg_nodes[1]].tokens) = 3
    /\ edges = <<>>

\* C9: "x = 1;" parses to exactly one P1 node and no edge; the node holds two
\* tokens, the STATEMENT "x = 1" and the SEMICOLON ";".
C9_StatementScenario ==
  (strings = <<LineS1>> /\ Ended) =>
    /\ pc = "done"
    /\ Len(cfg_nodes) = 1
    /\ heap[cfg_nodes[1]].type = "P1"
    /\ heap[cfg_nodes[1]].tokens =
         << Token(1, "STATEMENT", <<"x", " ", "=", " ", "1">>),
            Token(1, "SEMICOLON", <<";">>) >>
    /\ edges = <<>>

\* the parse of "x = 1;" has returned
C9_Witness == strings = <<LineS1>> /\ pc = "done" /\ Len(cfg_nodes) = 1

\* the first character of the input, from line i and column k on, that is
\* not white space; "" if there is none
RECURSIVE FirstInk(_, _)
FirstInk(i, k) ==
  IF i > Len(strings) THEN ""
  ELSE IF k > Len(strings[i]) THEN FirstInk(i + 1, 1)
  ELSE IF strings[i][k] \in Whitespace THEN FirstInk(i, k + 1)
  ELSE strings[i][k]

\* the last character of the input, from line i and column k back, that is
\* not white space; "" if there is none
RECURSIVE LastInk(_, _)
LastInk(i, k) ==
  IF i < 1 THEN ""
  ELSE IF k < 1 THEN LastInk(i - 1, IF i > 1 THEN Len(strings[i - 1]) ELSE 0)
  ELSE IF strings[i][k] \in Whitespace THEN LastInk(i, k - 1)
  ELSE strings[i][k]

\* the input ends with the character last, white space apart
InputEnds(last) ==
  /\ strings # <<>>
  /\ LastInk(Len(strings), Len(strings[Len(strings)])) = last

\* the input starts with one of the characters firsts and ends with the
\* character last, white space apart
Inked(firsts, last) == InputEnds(last) /\ FirstInk(1, 1) \in firsts

\* the input is an if with a condition and a braced body of one or more
\* non-empty statements, each ended by ";", and nothing else
IfThenBraced ==
  /\ Inked({"i", "I"}, "}")
  /\ \E k \in {Kinds} :
       LET n == Len(k)
       IN /\ n >= 8
          /\ SubSeq(k, 1, 5) = <<"IF", "PAREN_OPEN", "STATEMENT", "PAREN_CLOSE", "BRACE_OPEN">>
          /\ \A i \in 6..(n - 1) : k[i] \in {"STATEMENT", "SEMICOLON"}
          /\ \A i \in 6..(n - 1) : k[i] = "SEMICOLON" => k[i - 1] = "STATEMENT"
          /\ k[n - 1] = "SEMICOLON"
          /\ k[n] = "BRACE_CLOSE"

\* C10: an if without else whose braced body holds statements, such as
\* "if (c) { a; }", parses without error to exactly three nodes, D0, P1 and
\* D0_END, and exactly the edges D0 -> P1, P1 -> D0_END and D0 -> D0_END.
C10_IfThenScenario ==
  (Ended /\ IfThenBraced) =>
    /\ pc = "done"
    /\ Len(cfg_nodes) = 3
    /\ heap[cfg_nodes[1]].type = "D0"
    /\ heap[cfg_nodes[2]].type = "P1"
    /\ heap[cfg_nodes[3]].type = "D0_END"
    /\ Range(edges) = {<<cfg_nodes[1], cfg_nodes[2]>>,
                       <<cfg_nodes[2], cfg_nodes[3]>>,
                       <<cfg_nodes[1], cfg_nodes[3]>>}
    /\ Len(edges) = 3

\* the parse of an if whose head and body stand on different lines has ended
C10_Witness == IfThenBraced /\ Len(strings) = 2 /\ pc = "done" /\ Len(edges) = 3

\* k[from..to] is one or more non-empty statements, each ended by ";"
StatementsIn(k, from, to) ==
  /\ to >= from + 1
  /\ k[from] = "STATEMENT"
  /\ k[to] = "SEMICOLON"
  /\ \A i \in from..to : k[i] \in {"STATEMENT", "SEMICOLON"}
  /\ \A i \in (from + 1)..to : k[i] = "SEMICOLON" => k[i - 1] = "STATEMENT"

\* the kinds, in list order, of the nodes of the final list
NodeKinds == [i \in 1..Len(cfg_nodes) |-> heap[cfg_nodes[i]].type]

\* the input is a while with a condition and a braced body of one or more
\* non-empty statements, and nothing else
WhileBraced ==
  /\ Inked({"w", "W"}, "}")
  /\ \E k \in {Kinds} :
       LET n == Len(k)
       IN /\ n >= 8
          /\ SubSeq(k, 1, 5) =
               <<"WHILE", "PAREN_OPEN", "STATEMENT", "PAREN_CLOSE", "BRACE_OPEN">>
          /\ StatementsIn(k, 6, n - 1)
          /\ k[n] = "BRACE_CLOSE"

\* C11: a while whose braced body holds statements, such as
\* "while (c) { a; }", parses without error to exactly three nodes, D2, P1
\* and D2_END, and exactly the edges D2 -> P1, P1 -> D2 (the back-edge) and
\* D2 -> D2_END (the exit).
C11_WhileScenario ==
  (Ended /\ WhileBraced) =>
    /\ pc = "done"
    /\ NodeKinds = <<"D2", "P1", "D2_END">>
    /\ Range(edges) = {<<cfg_nodes[1], cfg_nodes[2]>>,
                       <<cfg_nodes[2], cfg_nodes[1]>>,
                       <<cfg_nodes[1], cfg_nodes[3]>>}
    /\ Len(edges) = 3

\* the parse of "while (c) { a; }" has returned with its three edges
C11_Witness ==
  strings = <<LineS4>> /\ WhileBraced /\ pc = "done" /\ Len(edges) = 3

\* the input is do, a braced body of one or more non-empty statements, and
\* the tail while (condition);
DoWhileBraced ==
  /\ Inked({"d", "D"}, ";")
  /\ \E k \in {Kinds} :
       LET n == Len(k)
       IN /\ n >= 10
          /\ SubSeq(k, 1, 2) = <<"DO", "BRACE_OPEN">>
          /\ StatementsIn(k, 3, n - 6)
          /\ SubSeq(k, n - 5, n) =
               <<"BRACE_CLOSE", "WHILE", "PAREN_OPEN", "STATEMENT", "PAREN_CLOSE",
                 "SEMICOLON">>

\* C12: "do { a; } while (c);" parses without error to a D3 head, a P1 body
\* and a D3_END tail that holds the tokens while ( c ) ;, with the edges
\* D3 -> P1, P1 -> D3_END and the back-edge D3_END -> D3.
C12_DoWhileScenario ==
  (Ended /\ DoWhileBraced) =>
    /\ pc = "done"
    /\ NodeKinds = <<"D3", "P1", "D3_END">>
    /\ [i \in 1..Len(heap[cfg_nodes[3]].tokens) |-> heap[cfg_nodes[3]].tokens[i].type]
         = <<"WHILE", "PAREN_OPEN", "STATEMENT", "PAREN_CLOSE", "SEMICOLON">>
    /\ {<<cfg_nodes[1], cfg_nodes[2]>>, <<cfg_nodes[2], cfg_nodes[3]>>,
         <<cfg_nodes[3], cfg_nodes[1]>>} = Range(edges)

\* the parse of "do { a; } while (c);" has returned
C12_Witness ==
  strings = <<LineS5>> /\ DoWhileBraced /\ pc = "done" /\ Len(cfg_nodes) = 3

\* the nodes of the final list reached from the set S along edges
RECURSIVE ReachFrom(_)
ReachFrom(S) ==
  LET T == S \cup {e[2] : e \in {d \in EdgeSet : d[1] \in S}}
  IN IF T = S THEN S ELSE ReachFrom(T)

\* the nodes reached from n by one edge or more
Descendants(n) == ReachFrom({e[2] : e \in {d \in EdgeSet : d[1] = n}})

\* the condition node of a for loop: a D0 node that does not start with if
IsForCond(n) ==
  /\ heap[n].type = "D0"
  /\ heap[n].tokens # <<>>
  /\ heap[n].tokens[1].type # "IF"

\* the heads of the loops in the final list
LoopHeads ==
  {n \in Range(cfg_nodes) : heap[n].type \in {"D2", "D3"} \/ IsForCond(n)}

\* C13: after an error-free parse every D2 node, every D3 node and the
\* condition node of every for loop has an incoming edge from one of its own
\* descendants (a back-edge).
C13_LoopBackEdge ==
  pc = "done" =>
    \A n \in LoopHeads : \E e \in EdgeSet : e[2] = n /\ e[1] \in Descendants(n)

\* an error-free parse with a loop whose back-edge starts at another node
C13_Witness ==
  /\ pc = "done"
  /\ \E n \in LoopHeads : \E e \in EdgeSet :
       e[2] = n /\ e[1] # n /\ e[1] \in Descendants(n)

\* the children of n in the final graph
Succ(n) == {e[2] : e \in {d \in EdgeSet : d[1] = n}}

\* the nodes reached from the set S along edges without passing through j
RECURSIVE ReachAvoiding(_, _)
ReachAvoiding(S, j) ==
  LET T == S \cup (UNION {Succ(n) : n \in S \ {j}})
  IN IF T = S THEN S ELSE ReachAvoiding(T, j)

\* the nodes of S from which an edge leads into S, again and again: what is
\* left of S after its nodes without a successor in S are taken out
RECURSIVE Cyclic(_)
Cyclic(S) ==
  LET T == {n \in S : Succ(n) \cap S # {}}
  IN IF T = S THEN S ELSE Cyclic(T)

\* every forward path from d reaches j, and none comes back to d before j:
\* among the nodes met before j there is no d, no node without children and
\* no cycle
Converges(d, j) ==
  LET before == ReachAvoiding(Succ(d), j) \ {j}
  IN /\ Succ(d) # {}
     /\ d \notin before
     /\ \A n \in before : Succ(n) # {}
     /\ Cyclic(before) = {}

\* C14: after an error-free parse, every D1 node has a D1_END node that
\* every forward path from the D1 node reaches without coming back to the
\* D1 node first.
C14_IfJoinConvergence ==
  pc = "done" =>
    \A d \in {n \in Range(cfg_nodes) : heap[n].type = "D1"} :
      \E j \in {n \in Range(cfg_nodes) : heap[n].type = "D1_END"} : Converges(d, j)

\* C15: after parse() has returned, the extracted edges, taken as a set, are
\* exactly the pairs (n, c) with n in the final node list and c among the
\* children of n.
C15_EdgeSetEquivalence ==
  pc = "done" =>
    Range(edges) =
      UNION {{<<n, c>> : c \in Range(heap[n].children)} : n \in Range(cfg_nodes)}

\* a returned parse whose graph has a node with two children
C15_Witness ==
  /\ pc = "done"
  /\ \E n \in Range(cfg_nodes) : Cardinality(Range(heap[n].children)) >= 2

\* C16: parse() with no buffered line, or only lines that tokenise to
\* nothing, returns with an empty node list and an empty edge list and
\* prints no diagnostic.
C16_EmptyInput ==
  (Ended /\ \A i \in 1..Len(strings) : \A k \in 1..Len(strings[i]) : strings[i][k] \in Whitespace) =>
    /\ pc = "done"
    /\ cfg_nodes = <<>>
    /\ nodes = <<>>
    /\ edges = <<>>
    /\ output = <<>>

\* the parse of blank lines has returned
C16_Witness == strings = <<LineBlank, LineBlank>> /\ pc = "done"

\* the parse without any line has returned
C16_WitnessNoLine == strings = <<>> /\ pc = "done"

\* C17: an input whose only token is a single ";" gives exactly one node, of kind P1,
\* with no parents and no children, and no edges.
C17_SingleSemicolon ==
  (Ended /\ Inked({";"}, ";") /\ Kinds = <<"SEMICOLON">>) =>
    /\ pc = "done"
    /\ Len(cfg_nodes) = 1
    /\ heap[cfg_nodes[1]].type = "P1"
    /\ heap[cfg_nodes[1]].parents = <<>>
    /\ heap[cfg_nodes[1]].children = <<>>
    /\ edges = <<>>

\* the parse of the single ";" has returned
C17_Witness == pc = "done" /\ strings = <<LineSemi>>

\* a string without its white space
RECURSIVE Squash(_)
Squash(s) ==
  IF s = <<>> THEN <<>>
  ELSE IF Head(s) \in Whitespace THEN Squash(Tail(s))
  ELSE <<Head(s)>> \o Squash(Tail(s))

\* the sequences of the tokens, in order, separated by single spaces
RECURSIVE Joined(_)
Joined(toks) ==
  IF toks = <<>> THEN <<>>
  ELSE IF Len(toks) = 1 THEN toks[1].sequence
  ELSE toks[1].sequence \o <<" ">> \o Joined(Tail(toks))

\* the tokens Parser.parse collected for the i-th line
TokensOfLine(i) == SelectSeq(tokens, LAMBDA t : t.line = i)

\* Parser.parse has left the tokenizer and parse_tokens has not run
Tokenized == pc = "parse_tokens" \/ (pc = "minimize" /\ heap = <<>>)

\* C18: for every input line, the sequences of its tokens joined by single
\* spaces equal the stripped line once white space is left out of both: no
\* other character is lost, added or reordered.
C18_TokenizerRoundTrip ==
  Tokenized =>
    \A i \in 1..Len(strings) :
      Squash(Joined(TokensOfLine(i))) = Squash(strip(strings[i]))

\* a line whose statement token holds white space and is followed by ";"
C18_Witness ==
  /\ pc = "parse_tokens"
  /\ strings = << <<"a", " ", "a", ";">> >>
  /\ Len(tokens) = 2
  /\ tokens[1].sequence = <<"a", " ", "a">>

\* C19: no two nodes of the parser's master node list carry the same id,
\* whatever the constructs and nestings, for-loop bodies included.
C19_UniqueIds ==
  \A i, j \in 1..Len(nodes) :
    i # j => heap[nodes[i]].val # heap[nodes[j]].val

\* the ids are unique whenever parse_tokens returns instead of raising
C19_UniqueIdsOnReturn == pc # "raised" => C19_UniqueIds

\* the node build_if_tree creates for else: it starts with the else token
IsElseArm(n) ==
  /\ heap[n].tokens # <<>>
  /\ heap[n].tokens[1].type = "ELSE"

\* the modify node of a for loop: its first child is the condition node
IsForModify(n) ==
  /\ heap[n].children # <<>>
  /\ IsForCond(heap[n].children[1])

\* C20 as stated: every node of the final list has one of the thirteen
\* decomposition kinds.
C20_KindInSetAlways ==
  Ended => \A n \in Range(cfg_nodes) : heap[n].type \in DecompStates

\* C20: every node of the final list has one of the thirteen decomposition
\* kinds or no kind at all, and the nodes without a kind are else arms of an
\* if/else and modify nodes of a for-loop.
C20_KindInSetOrNone ==
  Ended =>
    \A n \in Range(cfg_nodes) :
      \/ heap[n].type \in DecompStates
      \/ heap[n].type = "None" /\ (IsElseArm(n) \/ IsForModify(n))

\* a returned parse whose final list holds an else arm without a kind
C20_Witness ==
  pc = "done" /\ \E n \in Range(cfg_nodes) : heap[n].type = "None" /\ IsElseArm(n)

\* a returned parse whose final list holds a for modify node without a kind
C20_WitnessForModify ==
  pc = "done" /\ \E n \in Range(cfg_nodes) : heap[n].type = "None" /\ IsForModify(n)

\* C21: two tokens compare equal exactly when their lines, their kinds and
\* their sequences are equal.
C21_TokenEquality ==
  \A i, j \in 1..Len(tokens) :
    TokenEq(tokens[i], tokens[j]) <=>
      /\ tokens[i].line = tokens[j].line
      /\ tokens[i].type = tokens[j].type
      /\ tokens[i].sequence = tokens[j].sequence

\* the duplicate clusters of the node list about to be minimised
Clusters == {c \in Range(node_map(heap, nodes, 1)) : Len(c) >= 2}

\* C22: the minimiser completes normally, and for every non-root member n
\* of a duplicate cluster with root r it ends with n absent from the node
\* list and absent from r.children, whether or not r had n as a child.
C22_MergeCompletes ==
  [][pc = "minimize" =>
       \A c \in Clusters : \A m \in 2..Len(c) :
         /\ exc' = "none"
         /\ c[m] \notin Range(nodes')
         /\ c[m] \notin Range(heap'[c[1]].children)]_vars

\* n lies on every path of the final graph from the first node to p
Dominates(n, p) == p = n \/ p \notin ReachAvoiding({cfg_nodes[1]}, n)

\* the back-edges of the head n: the entries of the edge list that enter n
\* from a node that n dominates
BackEdges(n) ==
  {i \in 1..Len(edges) : edges[i][2] = n /\ Dominates(n, edges[i][1])}

InputTokens == tokenize_strings(strings, 1, <<>>).tokens

\* the token kinds of the heads that open a braced body
BodyHeads ==
  { <<"WHILE", "PAREN_OPEN", "STATEMENT", "PAREN_CLOSE", "BRACE_OPEN">>,
    <<"IF", "PAREN_OPEN", "STATEMENT", "PAREN_CLOSE", "BRACE_OPEN">>,
    <<"FUNCTION", "BRACE_OPEN">>,
    <<"FOR", "PAREN_OPEN", "SEMICOLON", "SEMICOLON", "PAREN_CLOSE", "BRACE_OPEN">> }

\* construct A then construct B: two statements
TwoStatements == <<"STATEMENT", "SEMICOLON", "STATEMENT", "SEMICOLON">>

\* construct A then construct B: a braced if-then and a statement
IfThenStatement ==
  <<"IF", "PAREN_OPEN", "STATEMENT", "PAREN_CLOSE", "BRACE_OPEN", "STATEMENT",
    "SEMICOLON", "BRACE_CLOSE", "STATEMENT", "SEMICOLON">>

\* the input is a head, a braced body of the constructs in body, and "}"
BodyOf(body) == \E h \in BodyHeads : Kinds = h \o body \o <<"BRACE_CLOSE">>

\* the nodes of the master list that hold the token t
HolderOf(t) ==
  {n \in Range(nodes) : \E i \in 1..Len(heap[n].tokens) : heap[n].tokens[i] = t}

\* parse_tokens has returned and the minimiser has not run yet
Built == pc = "minimize" /\ heap # <<>>

\* the node n is where the body is stitched from: it leads back to the loop
\* head, to the modify node of the for loop, or to the join of the construct
IsBodyTail(n) ==
  \E c \in Range(heap[n].children) :
    \/ heap[c].type \in {"D2", "D0_END", "F1_END"}
    \/ heap[c].type = "None" /\ IsForModify(c)

\* C24: in a braced body (while, if-then, for, function) holding construct
\* A and then the statement B, the parse raises nothing, B is coalesced
\* into the node of A when A is a statement and is a child of the exit node
\* of A when A is an if-then, and the node of B is the body tail the
\* construct is stitched from.
C24_BodyChaining ==
  LET toks == InputTokens
      n == Len(toks)
  IN /\ (BodyOf(TwoStatements) \/ BodyOf(IfThenStatement)) =>
          ~(pc = "raised" /\ ~bound)
     /\ (Built /\ BodyOf(TwoStatements)) =>
          /\ Cardinality(HolderOf(toks[n - 2])) = 1
          /\ HolderOf(toks[n - 2]) = HolderOf(toks[n - 4])
          /\ \A b \in HolderOf(toks[n - 2]) : IsBodyTail(b)
     /\ (Built /\ BodyOf(IfThenStatement)) =>
          /\ Cardinality(HolderOf(toks[n - 2])) = 1
          /\ \A b \in HolderOf(toks[n - 2]) :
               /\ IsBodyTail(b)
               /\ \E a \in Range(heap[b].parents) :
                    /\ heap[a].type = "D0_END"
                    /\ \E p \in Range(heap[a].parents) :
                         p \in HolderOf(toks[n - 10])

\* the parser state in which build_statement_tree meets the tokens toks
\* with a walker (node 2) of the kind type
AtWalker(type, toks) ==
  [heap |-> <<Node(-1, <<>>), [Node(0, <<>>) EXCEPT !.type = type]>>,
   nodes |-> <<2>>, tokens |-> toks, exc |-> "none", grammar_error |-> <<>>]

\* position of the first SEMICOLON of toks, 0 if there is none
FirstSemicolon(toks) ==
  LET at == {i \in 1..Len(toks) : toks[i].type = "SEMICOLON"}
  IN IF at = {} THEN 0 ELSE CHOOSE i \in at : \A j \in at : i <= j

\* toks starts with a statement: STATEMENT tokens, none or more, and ";"
StartsWithStatement(toks) ==
  /\ FirstSemicolon(toks) > 0
  /\ \A i \in 1..(FirstSemicolon(toks) - 1) : toks[i].type = "STATEMENT"

\* the token lists build_statement_tree is tried on: the rests of the input
StatementInputs ==
  {SubSeq(tokens, i, Len(tokens)) : i \in 1..Len(tokens)}

\* what C25 asks of build_statement_tree on the tokens toks
Coalesces(toks) ==
      LET k == FirstSemicolon(toks)
          same == build_statement_tree(AtWalker("P1", toks), 2)
          fresh == build_statement_tree(AtWalker("D2", toks), 2)
      IN /\ same.ret = 2
         /\ Len(same.ps.heap) = 2
         /\ same.ps.nodes = <<2>>
         /\ same.ps.heap[2].tokens = SubSeq(toks, 1, k)
         /\ same.ps.tokens = SubSeq(toks, k + 1, Len(toks))
         /\ fresh.ret = 3
         /\ Len(fresh.ps.heap) = 3
         /\ fresh.ps.nodes = <<2, 3>>
         /\ fresh.ps.heap[3].type = "P1"
         /\ fresh.ps.heap[3].parents = <<2>>
         /\ fresh.ps.heap[2].children = <<3>>
         /\ fresh.ps.heap[3].tokens = SubSeq(toks, 1, k)
         /\ fresh.ps.tokens = SubSeq(toks, k + 1, Len(toks))

\* C25: called with a walker of kind P1, build_statement_tree creates no
\* node and appends the tokens of the statement to the walker; called with
\* a walker of another kind it creates exactly one P1 node as a child of the
\* walker; in both cases it consumes the tokens up to the first SEMICOLON
\* and no more.
C25_StatementCoalescing ==
  pc = "parse_tokens" =>
    \A toks \in StatementInputs : StartsWithStatement(toks) => Coalesces(toks)

\* the same for the statements that do not begin with their ";"
C25_NonEmptyStatementCoalescing ==
  pc = "parse_tokens" =>
    \A toks \in StatementInputs :
      (StartsWithStatement(toks) /\ toks[1].type = "STATEMENT") => Coalesces(toks)

\* the token kinds of an if head and of the arms: one statement, a braced
\* statement, an empty brace pair
IfHeadKinds == <<"IF", "PAREN_OPEN", "STATEMENT", "PAREN_CLOSE">>

ArmKinds ==
  { <<"STATEMENT", "SEMICOLON">>,
    <<"BRACE_OPEN", "STATEMENT", "SEMICOLON", "BRACE_CLOSE">>,
    <<"BRACE_OPEN", "BRACE_CLOSE">> }

\* the token kinds of the inputs that are one if construct: if-then,
\* if-else, if / else-if, and if / else-if / else
IfThenInputs == {IfHeadKinds \o a : a \in ArmKinds}

IfElseInputs ==
  {IfHeadKinds \o a \o <<"ELSE">> \o b : a \in ArmKinds, b \in ArmKinds}

ElseIfInputs ==
  {IfHeadKinds \o a \o <<"ELSE">> \o IfHeadKinds \o b :
     a \in ArmKinds, b \in ArmKinds}

ElseIfElseInputs == {x \o <<"ELSE">> \o c : x \in ElseIfInputs, c \in ArmKinds}

IfInput ==
  Kinds \in IfThenInputs \cup IfElseInputs \cup ElseIfInputs \cup ElseIfElseInputs

\* the nodes of the built graph reached from the set S along child links
RECURSIVE BuiltReach(_)
BuiltReach(S) ==
  LET T == S \cup UNION {Range(heap[n].children) : n \in S}
  IN IF T = S THEN S ELSE BuiltReach(T)

\* the token kinds of an if construct cut after its else
CutIfElseInputs == {IfHeadKinds \o a \o <<"ELSE">> : a \in ArmKinds}

\* what C26 asks of the graph built for one if construct
IfStitched ==
  LET head == nodes[1]
      join == nodes[Len(nodes)]
      else == \E i \in 1..Len(Kinds) : Kinds[i] = "ELSE"
  IN /\ heap[join].type \in {"D0_END", "D1_END"}
     /\ heap[join].children = <<>>
     /\ \A n \in Range(nodes) : join \in BuiltReach({n})
     /\ Len(heap[join].parents) = 2
     /\ \A a \in Range(heap[head].children) \ {join} :
          \E x \in Range(heap[join].parents) : x # head /\ x \in BuiltReach({a})
     /\ (join \in Range(heap[head].children)) <=> ~else
     /\ heap[head].type = IF else THEN "D1" ELSE "D0"

\* C26: for an input that is one if construct, the last one also when the
\* input ends after its else, the parse raises nothing, the node created
\* last is the one join of the construct, the exit of every arm is linked
\* to it, the head has a direct edge to it exactly when the construct has
\* no else arm, and the head has kind D1 exactly when an ELSE token was
\* consumed for it, D0 otherwise.
C26_IfStitching ==
  /\ (pc = "raised" /\ ~bound) => ~(IfInput \/ Kinds \in CutIfElseInputs)
  /\ (Built /\ (IfInput \/ Kinds \in CutIfElseInputs)) => IfStitched

\* the same for the if constructs whose arms all have a body
C26_CompleteIfStitching ==
  /\ (pc = "raised" /\ ~bound) => ~IfInput
  /\ (Built /\ IfInput) => IfStitched

\* the token kinds of the for heads: every part absent, every part present
ForHeadKinds ==
  { <<"FOR", "PAREN_OPEN", "SEMICOLON", "SEMICOLON", "PAREN_CLOSE">>,
    <<"FOR", "PAREN_OPEN", "STATEMENT", "SEMICOLON", "STATEMENT", "SEMICOLON",
      "STATEMENT", "PAREN_CLOSE">> }

\* the token kinds of the for bodies: one statement, braced statements
ForBodyKinds ==
  { <<"STATEMENT", "SEMICOLON">>,
    <<"BRACE_OPEN", "STATEMENT", "SEMICOLON", "BRACE_CLOSE">>,
    <<"BRACE_OPEN", "STATEMENT", "SEMICOLON", "STATEMENT", "SEMICOLON",
      "BRACE_CLOSE">> }

\* the token kinds of the inputs that are one for loop with a body / with
\* a bare ";" as its body
ForWithBodyInputs == {h \o b : h \in ForHeadKinds, b \in ForBodyKinds}

ForWithSemicolonInputs == {h \o <<"SEMICOLON">> : h \in ForHeadKinds}

\* the first node parse_tokens created starts with the token kind type
FirstNodeStarts(type) ==
  /\ Len(heap) >= 2
  /\ heap[2].tokens # <<>>
  /\ heap[2].tokens[1].type = type

ForWithBody == FirstNodeStarts("FOR") /\ Kinds \in ForWithBodyInputs

ForWithSemicolon == FirstNodeStarts("FOR") /\ Kinds \in ForWithSemicolonInputs

\* parent -> child is an edge of the built graph
BuiltEdge(parent, child) == child \in Range(heap[parent].children)

\* C27: for an input that is one for loop (parts of the head present or
\* absent; body a statement, braced, or a bare ";") the parse raises
\* nothing and the graph built before minimisation has the edges
\* init -> cond, cond -> body entry, body tail -> modify (cond -> modify
\* when the body is a bare ";"), modify -> cond and cond -> end.
C27_ForStitching ==
  LET init == nodes[1]
      cond == nodes[2]
      modify == nodes[3]
      end_node == nodes[Len(nodes)]
  IN /\ (pc = "raised" /\ ~bound) => ~(ForWithBody \/ ForWithSemicolon)
     /\ (Built /\ (ForWithBody \/ ForWithSemicolon)) =>
          /\ heap[init].tokens[1].type = "FOR"
          /\ IsForCond(cond)
          /\ heap[end_node].type = "D0_END"
          /\ BuiltEdge(init, cond)
          /\ BuiltEdge(modify, cond)
          /\ BuiltEdge(cond, end_node)
     /\ (Built /\ ForWithBody) =>
          /\ Len(nodes) >= 5
          /\ BuiltEdge(cond, nodes[4])
          /\ BuiltEdge(nodes[Len(nodes) - 1], modify)
     /\ (Built /\ ForWithSemicolon) =>
          /\ Len(nodes) = 4
          /\ BuiltEdge(cond, modify)

\* the graph of a for loop with a braced body has been built
C27_Witness ==
  /\ Built
  /\ strings = <<LineForOpen, LineStatementClose>>
  /\ ForWithBody
  /\ BuiltEdge(nodes[4], nodes[3])

\* the graph of a for loop with a bare ";" as its body has been built
C27_WitnessSemicolon == Built /\ ForWithSemicolon /\ BuiltEdge(nodes[2], nodes[3])

\* an empty brace pair
EmptyBraces == <<"BRACE_OPEN", "BRACE_CLOSE">>

\* the token kinds of the inputs that are one construct with an empty
\* brace pair as body: while, if-then, function, for, and the else arm
WhileEmptyInputs ==
  {<<"WHILE", "PAREN_OPEN", "STATEMENT", "PAREN_CLOSE">> \o EmptyBraces}

IfEmptyInputs == {IfHeadKinds \o EmptyBraces}

FunctionEmptyInputs == {<<"FUNCTION">> \o EmptyBraces}

ForEmptyInputs == {h \o EmptyBraces : h \in ForHeadKinds}

ElseEmptyInputs == {IfHeadKinds \o a \o <<"ELSE">> \o EmptyBraces : a \in ArmKinds}

\* the placeholder nodes: kind P1, one token, with an empty sequence
Placeholders ==
  {n \in Range(nodes) :
     /\ heap[n].type = "P1"
     /\ Len(heap[n].tokens) = 1
     /\ heap[n].tokens[1].sequence = <<>>}

\* the placeholder e is the child of parent only and lies on the line of
\* the last token of walker
PlaceholderUnder(e, parent, walker) ==
  /\ heap[e].parents = <<parent>>
  /\ BuiltEdge(parent, e)
  /\ heap[e].tokens[1].line = heap[walker].tokens[Len(heap[walker].tokens)].line

\* the node e has a child of the kind type
LeadsTo(e, type) == \E c \in Range(heap[e].children) : heap[c].type = type

DoWhileEmptyInput ==
  <<"DO", "BRACE_OPEN", "BRACE_CLOSE", "WHILE", "PAREN_OPEN", "STATEMENT",
    "PAREN_CLOSE", "SEMICOLON">>

\* C29: do { } while (c); parses without error: the placeholder P1 node
\* holds the closing brace, the node made on the while keyword follows it
\* and ends as D3_END, and the edges are D3 -> P1 -> D3_END with the
\* back-edge D3_END -> D3.
C29_EmptyDoWhile ==
  /\ (Built /\ FirstNodeStarts("DO") /\ Kinds = DoWhileEmptyInput) =>
       /\ Len(nodes) = 3
       /\ heap[nodes[1]].type = "D3"
       /\ heap[nodes[2]].type = "P1"
       /\ heap[nodes[3]].type = "D3_END"
       /\ Len(heap[nodes[2]].tokens) = 1
       /\ heap[nodes[2]].tokens[1].type = "BRACE_CLOSE"
       /\ heap[nodes[3]].tokens[1].type = "WHILE"
       /\ heap[nodes[3]].tokens[Len(heap[nodes[3]].tokens)].type = "SEMICOLON"
       /\ heap[nodes[1]].children = <<nodes[2]>>
       /\ heap[nodes[2]].children = <<nodes[3]>>
       /\ heap[nodes[3]].children = <<nodes[1]>>
  /\ (pc = "raised" /\ Inked({"d", "D"}, ";")) => Kinds # DoWhileEmptyInput

\* the graph of do { } while (c); has been built
C29_Witness ==
  /\ Built
  /\ strings = <<LineDoOpen, LineDoTail>>
  /\ Len(nodes) = 3

\* the nodes of the built graph reached from the set S along child links
\* without passing through j
RECURSIVE BuiltReachAvoiding(_, _)
BuiltReachAvoiding(S, j) ==
  LET T == S \cup UNION {Range(heap[n].children) : n \in S \ {j}}
  IN IF T = S THEN S ELSE BuiltReachAvoiding(T, j)

\* the kinds of the tokens of the node n
TokenKinds(n) == [i \in 1..Len(heap[n].tokens) |-> heap[n].tokens[i].type]

\* the input starts with a function token and the token kind second after it
FunctionThen(second) ==
  /\ Built
  /\ FirstNodeStarts("FUNCTION")
  /\ Len(InputTokens) >= 2
  /\ InputTokens[2].type = second

\* the node e closes the function of the head: it is the F1_END node of
\* the closing brace, and its one parent is the tail of the body, a node
\* other than the head that every node of the body leads to
ClosesFunction(e, head) ==
  /\ heap[e].type = "F1_END"
  /\ TokenKinds(e) = <<"BRACE_CLOSE">>
  /\ Len(heap[e].parents) = 1
  /\ \E t \in {heap[e].parents[1]} :
       /\ t # head
       /\ BuiltEdge(t, e)
       /\ t \in BuiltReachAvoiding(Range(heap[head].children), e)
       /\ \A b \in BuiltReachAvoiding(Range(heap[head].children), e) \ {e} :
            t \in BuiltReachAvoiding({b}, e)

\* C30: a function token directly followed by a semicolon gives exactly
\* one node, of kind P1, that holds the semicolon too, has no F1_END node
\* under it and is the exit that the next construct hangs under; a function
\* token followed by a braced body gives an F1 head, the body, and an
\* F1_END node that is a child of the tail of the body.
C30_FunctionShortcut ==
  /\ FunctionThen("SEMICOLON") =>
       /\ heap[nodes[1]].type = "P1"
       /\ Len(heap[nodes[1]].tokens) >= 2
       /\ SubSeq(TokenKinds(nodes[1]), 1, 2) = <<"FUNCTION", "SEMICOLON">>
       /\ \A c \in Range(heap[nodes[1]].children) : heap[c].type # "F1_END"
       /\ Len(InputTokens) = 2 => Len(nodes) = 1
       /\ Len(nodes) >= 2 => heap[nodes[2]].parents[1] = nodes[1]
  /\ FunctionThen("BRACE_OPEN") =>
       /\ heap[nodes[1]].type = "F1"
       /\ TokenKinds(nodes[1]) = <<"FUNCTION", "BRACE_OPEN">>
       /\ \E e \in Range(nodes) : ClosesFunction(e, nodes[1])
  /\ (pc = "raised" /\ InputEnds(";")) => Kinds # <<"FUNCTION", "SEMICOLON">>

\* two calls in a row have been built: the second hangs under the first
C30_Witness ==
  /\ Built
  /\ strings = <<LineCall, LineCall>>
  /\ Len(nodes) = 2

\* a function with a statement as body has been built
C30_WitnessBody ==
  /\ Built
  /\ strings = <<LineFuncOpen, LineStatementClose>>
  /\ \E e \in Range(nodes) : ClosesFunction(e, nodes[1])

\* the body states of the table, each with the state of its opening brace
BodyStates ==
  { <<"WHILE_STATEMENT", "WHILE_BRACE_OPEN">>,
    <<"DO_WHILE_STATEMENT", "DO_WHILE_BRACE_OPEN">>,
    <<"IF_THEN_STATEMENT", "IF_THEN_BRACE_OPEN">>,
    <<"IF_ELSE_STATEMENT", "IF_ELSE_BRACE_OPEN">>,
    <<"FOR_STATEMENT", "FOR_BRACE_OPEN">>,
    <<"FUNC_STATEMENT", "FUNC_BRACE_OPEN">> }

\* the token kinds that open a construct nested in a body
NestedOpeners == {"STATEMENT", "SEMICOLON", "IF", "WHILE", "DO", "FOR", "FUNCTION"}

\* the steps of the program
Steps == {"add_string", "parse_tokens", "minimize", "get_edges", "done", "raised"}

\* every body state B maps every nested opener to B, the state of its
\* opening brace maps every nested opener to B too, and every entry of the
\* table that no rule sets is ERROR
NestingTable ==
  /\ \A b \in BodyStates : \A k \in NestedOpeners :
       states[b[1]][k] = b[1] /\ states[b[2]][k] = b[1]
  /\ \A s \in DOMAIN states : \A k \in DOMAIN states[s] :
       (\A i \in 1..Len(Rules) : Rules[i][1] # s \/ Rules[i][2] # k)
         => states[s][k] = "ERROR"

\* C31: at every step of the program the table of the parser maps every
\* nested opener to the body state B, from B and from the state of its
\* opening brace, and holds ERROR wherever no rule was set.
C31_NestingTable == pc \in Steps => NestingTable

\* a statement in a while body has been built: the parse went through
\* the entry of WHILE_BRACE_OPEN for a statement
C31_Witness ==
  /\ Built
  /\ strings = <<LineWhileOpen, LineStatementClose>>
  /\ states["WHILE_BRACE_OPEN"]["STATEMENT"] = "WHILE_STATEMENT"

\* the heads of the while loops of the built graph
WhileHeads ==
  {n \in Range(nodes) :
     /\ heap[n].type = "D2"
     /\ heap[n].tokens # <<>>
     /\ heap[n].tokens[1].type = "WHILE"}

\* the head n holds a closed condition: while, (, one statement token or
\* more, and )
HeaderClosed(n) ==
  \E i \in 4..Len(heap[n].tokens) :
    /\ heap[n].tokens[2].type = "PAREN_OPEN"
    /\ \A j \in 3..(i - 1) : heap[n].tokens[j].type = "STATEMENT"
    /\ heap[n].tokens[i].type = "PAREN_CLOSE"

\* a body was parsed for the head n: a node other than the head and its
\* exit hangs under it
BodyParsed(n) ==
  \E c \in Range(heap[n].children) : c # n /\ heap[c].type # "D2_END"

\* the table enters WHILE_PAREN_CLOSE on a closing parenthesis only
WhileParenCloseByParenOnly ==
  \A s \in DOMAIN states : \A k \in DOMAIN states[s] :
    states[s][k] = "WHILE_PAREN_CLOSE" => k = "PAREN_CLOSE"

\* C32: a while loop whose body was parsed has the header while ( condition ):
\* the state from which the body is parsed is entered by consuming the
\* closing parenthesis only.
C32_WhileHeader ==
  Built => \A n \in WhileHeads : BodyParsed(n) => HeaderClosed(n)

\* C33: parse_tokens terminates on every token queue, and when it reports
\* no error the queue is empty: a call of parse_tokens leads to its return
\* with the queue drained or to the exception that escapes it.
C33_Termination ==
  (pc = "parse_tokens") ~> (pc = "raised" \/ (pc = "minimize" /\ tokens = <<>>))

\* parse_tokens has returned from a queue of nested constructs on two lines
\* and has left it empty
C33_Witness ==
  /\ Built
  /\ strings = <<LineWhileOpen, LineStatementClose>>
  /\ tokens = <<>>

\* the tokens held by the nodes of the list
HeldTokens == UNION {Range(heap[n].tokens) : n \in Range(nodes)}

\* the input is one line of two constructs that begin with a token of the
\* same kind: two statements, or two calls
SameKindPair ==
  /\ Len(strings) = 1
  /\ InputEnds(";")
  /\ Kinds \in {TwoStatements, <<"FUNCTION", "SEMICOLON", "FUNCTION", "SEMICOLON">>}

\* C34: of two top-level constructs on one line that begin with tokens of
\* the same kind, such as a; b;, every token ends up in the token list of
\* some node: parse_tokens discards no token that a builder would consume.
C34_TokenConservation ==
  (Built /\ SameKindPair) => \A i \in 1..Len(InputTokens) : InputTokens[i] \in HeldTokens

\* C35: after parse() every child and every parent of a node of the final
\* list is in the final list, and so are both ends of every edge: no node
\* that survives refers to a node the minimiser removed.
C35_NoDanglingReference ==
  pc = "done" =>
    /\ \A n \in Range(cfg_nodes) :
         Range(heap[n].children) \cup Range(heap[n].parents) \subseteq Range(cfg_nodes)
    /\ \A i \in 1..Len(edges) : {edges[i][1], edges[i][2]} \subseteq Range(cfg_nodes)

\* C36: with the twelve rules of the parser the tokenizer fails on no line:
\* Parser.parse reaches parse_tokens, nothing is printed, and no token has
\* the kind LAMBDA or ERROR.
C36_TokenizerTotal ==
  /\ Len(TokenInfos) = 12
  /\ Tokenized =>
       /\ pc = "parse_tokens"
       /\ output = <<>>
       /\ \A i \in 1..Len(tokens) : tokens[i].type \notin {"LAMBDA", "ERROR"}
  /\ \A i \in 1..Len(strings) : ~tokenize(strings[i], i).error

\* a line that only the STATEMENT rule can start on has been tokenised: an
\* opening parenthesis without its closing one is no function
C36_Witness ==
  /\ pc = "parse_tokens"
  /\ strings = << <<"a", "(", ";">> >>
  /\ Len(tokens) = 3
  /\ tokens[1].type = "STATEMENT"

\* the token kinds of a while or an if that stops before its body: the
\* keyword, and what follows it up to the opening brace, cut anywhere
CutHeadInputs ==
  {SubSeq(<<w>> \o <<"PAREN_OPEN", "STATEMENT", "PAREN_CLOSE", "BRACE_OPEN">>, 1, n) :
     w \in {"WHILE", "IF"}, n \in 1..5}

\* C37: when the tokens run out inside a while or an if before its body,
\* as in while (c, the builder adds nothing for the rest of the construct:
\* the head is the only node, without join or exit node, and it has no
\* child, in particular no self-loop.
C37_IncompleteNotStitched ==
  (Built /\ Len(nodes) >= 1 /\ Kinds \in CutHeadInputs) =>
    /\ Len(nodes) = 1
    /\ heap[nodes[1]].children = <<>>
    /\ nodes[1] \notin Range(heap[nodes[1]].parents)

\* the nodes of the final list reached from the set S along children links
\* that stay in the list
RECURSIVE ListReach(_)
ListReach(S) ==
  LET T == S \cup (UNION {Range(heap[n].children) : n \in S} \cap Range(cfg_nodes))
  IN IF T = S THEN S ELSE ListReach(T)

\* the nodes of the final list that no path of children edges from the
\* first node of the list reaches
Orphans ==
  IF cfg_nodes = <<>> THEN {}
  ELSE Range(cfg_nodes) \ ListReach({cfg_nodes[1]})

\* C38: after an error-free parse every node of the final list is reached
\* from the first node of the list along children edges.
C38_Reachability == pc = "done" => Orphans = {}

\* the parse of a for loop with a body has ended without error: condition,
\* modify node, body and exit are all in the final list
C38_Witness ==
  /\ pc = "done"
  /\ strings = <<LineForOpen, LineStatementClose>>
  /\ Len(cfg_nodes) >= 4
  /\ Orphans = {}

=============================================================================
